---- MODULE Spec2Model ----
(***************************************************************************)
(* Ledger, joint-account approval and recurring-template behaviour of the  *)
(* finance backend (backend/core).  Money is counted in whole currency     *)
(* units, dates are (year, month, day) triples or day ordinals counted     *)
(* from 2024-01-01 (ordinal 0).  Notification rows are written by several  *)
(* handlers but read by no property below, so they are not part of the     *)
(* state.                                                                  *)
(***************************************************************************)
EXTENDS Integers, Sequences, FiniteSets, TLC

(***************************************************************************)
(* Bounds of the model                                                     *)
(***************************************************************************)
\* most rows the Transaction table may hold in the ledger specification
MaxTx == 1
\* most rows the Transaction table may hold in the recurring specifications
MaxRecTx == 4
\* most recurring templates that may exist
MaxTemplates == 1
\* most rows the Entity table may hold in the entity specification
MaxEntities == 3
\* longest tag list a set_tags request may carry
MaxTagList == 3
\* longest list a relationship may grow to
MaxLinks == 2
\* last day ordinal the clock may reach (2024-01-01 is day 0, 2024-03-01 is day 60)
MaxDay == 60

(***************************************************************************)
(* Program constants                                                       *)
(***************************************************************************)
\* create_joint_account: 'require_approval_over': 1000.00
RequireApprovalOver == 1000

Users == {1, 2, 3}
AccountIds == {"acct1"}
InitialBalances == {100}
STATUS_CHOICES == {"active", "pending", "cancelled", "template"}
None == "None"
\* an absent user id and an absent date
NoUser == 0
NoDate == << >>

(***************************************************************************)
(* Calendar arithmetic (datetime.date, timedelta, isoformat/fromisoformat) *)
(***************************************************************************)
IsLeap(y) == (y % 4 = 0 /\ y % 100 # 0) \/ y % 400 = 0

DaysInMonth(y, m) ==
    IF m = 2 THEN (IF IsLeap(y) THEN 29 ELSE 28)
    ELSE IF m \in {4, 6, 9, 11} THEN 30 ELSE 31

DaysInYear(y) == IF IsLeap(y) THEN 366 ELSE 365

RECURSIVE DaysBeforeMonth(_, _)
DaysBeforeMonth(y, m) ==
    IF m = 1 THEN 0 ELSE DaysBeforeMonth(y, m - 1) + DaysInMonth(y, m - 1)

RECURSIVE DaysBeforeYear(_)
DaysBeforeYear(y) ==
    IF y = 2024 THEN 0 ELSE DaysBeforeYear(y - 1) + DaysInYear(y - 1)

\* date(y, m, d).toordinal(), shifted so that 2024-01-01 is 0
ToOrdinal(ymd) == DaysBeforeYear(ymd[1]) + DaysBeforeMonth(ymd[1], ymd[2]) + (ymd[3] - 1)

RECURSIVE YearOf(_, _)
YearOf(n, y) == IF n < DaysInYear(y) THEN <<y, n>> ELSE YearOf(n - DaysInYear(y), y + 1)

RECURSIVE MonthOf(_, _, _)
MonthOf(n, y, m) ==
    IF n < DaysInMonth(y, m) THEN <<y, m, n + 1>> ELSE MonthOf(n - DaysInMonth(y, m), y, m + 1)

\* date.fromordinal(n) for n >= 0
FromOrdinal(n) == LET yn == YearOf(n, 2024) IN MonthOf(yn[2], yn[1], 1)

\* date.isoformat(): the stored text carries exactly year, month and day
isoformat(n) == FromOrdinal(n)
\* datetime.fromisoformat(text).date()
fromisoformat(ymd) == ToOrdinal(ymd)

(***************************************************************************)
(* State                                                                   *)
(***************************************************************************)
VARIABLES
    accounts,       \* Entity rows of type account: id -> row
    transactions,   \* Transaction rows (models.py), in creation order; id = index
    today,          \* timezone.now().date() as a day ordinal
    impl,           \* which of the repository's model modules serves the run
    otx,            \* Transaction rows of models_optimized.py, in creation order
    ologs,          \* ActivityLog rows of models_optimized.py, in creation order
    last,           \* the last call: operation and result; for an approval the approving
                    \* user, for an approval or execution the transaction id
    entities,       \* Entity rows of any type, in creation order; id = index
    investments,    \* Investment rows of models_optimized.py, in creation order
    itx,            \* investment Transaction rows of models_optimized.py
    subscription,   \* the user's UserSubscription: its plan id, 0 when there is no row
    customization,  \* the user's UserPlanCustomization row, << >> when there is none
    addon_instances, \* UserAddonInstance rows of the customization, in creation order
    groups,         \* SocialGroup rows, in creation order
    relationships,  \* UserRelationship rows: <<user, related_user>> -> row
    membership,     \* a GroupMembership row, << >> when there is none
    pc,             \* the position of each concurrent request in its handler
    local,          \* what each concurrent request holds in memory
    recurring,      \* RecurringTransaction rows, in creation order; id = index
    rtx,            \* Transaction rows the recurring transactions created
    profile,        \* the user's UserProfile row
    memberships,    \* GroupMembership rows: <<group, user>> -> row
    usage           \* the usage counters of the user's UserSubscription row, << >> when
                    \* there is no row

\* the tables of the ledger and of the recurring templates
baseVars == <<accounts, transactions, today, impl, otx, ologs>>
\* the tables the ledger and the recurring templates never write
investVars == <<investments, itx>>
planVars == <<subscription, customization, addon_instances>>
\* the tables no entity operation writes
\* the requests in flight
procVars == <<pc, local>>
\* the tables and the requests added last
\* the recurring transactions and the rows they created
batchVars == <<recurring, rtx>>
lateVars == <<batchVars, profile, usage, memberships>>
moreVars == <<procVars, lateVars>>
restVars == <<investVars, planVars, groups, relationships, membership, moreVars>>
\* the tables no investment operation writes
notInvest == <<baseVars, entities, planVars, groups, relationships, membership, moreVars>>
\* the tables no plan operation writes
notPlan == <<baseVars, entities, investVars, groups, relationships, membership, moreVars>>
extVars == <<entities, restVars>>

vars == <<baseVars, last, extVars>>


Get(data, key, default) == IF key \in DOMAIN data THEN data[key] ELSE default

Put(data, key, value) == [k \in DOMAIN data \cup {key} |-> IF k = key THEN value ELSE data[k]]

Contains(seq, x) == \E i \in 1..Len(seq) : seq[i] = x

NoCall == [op |-> "init", user |-> NoUser, tx |-> 0, result |-> None]

Call(op, user, tx, result) == [op |-> op, user |-> user, tx |-> tx, result |-> result]

\* str(row.id)
IdString(id) == [kind |-> "str", id |-> id]
\* row.id, a uuid.UUID (BaseModel.id)
IdUUID(id) == [kind |-> "UUID", id |-> id]

\* the requests that may be in flight together
Procs == {1, 2}

\* a UserProfile row as created: config = dict(), current_plan 'free',
\* subscription_status 'trial', ai_credits_remaining 100
NewUserProfile ==
    [config |-> << >>, current_plan |-> "free", subscription_status |-> "trial",
     ai_credits_remaining |-> 100]

\* the empty tables of the subsystems a run does not exercise
RestInit ==
    /\ investments = << >>
    /\ itx = << >>
    /\ subscription = 0
    /\ customization = << >>
    /\ addon_instances = << >>
    /\ groups = << >>
    /\ relationships = << >>
    /\ membership = << >>
    /\ pc = [p \in Procs |-> "idle"]
    /\ local = [p \in Procs |-> << >>]
    /\ recurring = << >>
    /\ rtx = << >>
    /\ profile = NewUserProfile
    /\ usage = << >>
    /\ memberships = << >>

Init ==
    /\ accounts = << >>
    /\ transactions = << >>
    /\ today = 0
    /\ impl = "models"
    /\ otx = << >>
    /\ ologs = << >>
    /\ last = NoCall
    /\ entities = << >>
    /\ RestInit

(***************************************************************************)
(* Entity.set_data_value / Entity.balance                                  *)
(***************************************************************************)
set_data_value(account, key, value) == [account EXCEPT !.data = Put(account.data, key, value)]

balance(account) == Get(account.data, "balance", 0)

(***************************************************************************)
(* create_joint_account                                                    *)
(***************************************************************************)
JointAccount(primary_user, secondary_users, initial_balance) ==
    [user |-> primary_user,
     entity_type |-> "account",
     data |-> [balance |-> initial_balance,
               is_joint |-> TRUE,
               primary_owner |-> primary_user,
               joint_owners |-> secondary_users,
               require_approval_over |-> RequireApprovalOver],
     initial_balance |-> initial_balance]

\* UserRelationship.objects.get_or_create defaults of create_joint_account and the
\* column defaults of the access flags
NewRelationship ==
    [status |-> "accepted", is_mutual |-> TRUE, can_view_financial_data |-> FALSE,
     can_manage_joint_accounts |-> FALSE, joint_accounts |-> << >>]

\* the loop of create_joint_account over secondary_users: the row from the primary to
\* the secondary user is fetched or created and lists str(account.id) once; the reverse
\* row is created with a copy of that configuration when there is none
RECURSIVE link_joint_owners(_, _, _, _)
link_joint_owners(rows, primary_user, secondary_users, id) ==
    IF secondary_users = << >> THEN rows
    ELSE LET secondary_user == Head(secondary_users)
             found == Get(rows, <<primary_user, secondary_user>>, NewRelationship)
             relationship ==
                 IF Contains(found.joint_accounts, IdString(id)) THEN found
                 ELSE [found EXCEPT !.joint_accounts = Append(@, IdString(id))]
             forward == Put(rows, <<primary_user, secondary_user>>, relationship)
             reverse ==
                 IF <<secondary_user, primary_user>> \in DOMAIN forward THEN forward
                 ELSE Put(forward, <<secondary_user, primary_user>>,
                          [NewRelationship EXCEPT
                              !.joint_accounts = relationship.joint_accounts])
         IN  link_joint_owners(reverse, primary_user, Tail(secondary_users), id)

create_joint_account(id, primary_user, secondary_users, initial_balance) ==
    /\ id \notin DOMAIN accounts
    /\ relationships' = link_joint_owners(relationships, primary_user, secondary_users, id)
    /\ accounts' = [a \in DOMAIN accounts \cup {id} |->
                        IF a = id
                        THEN JointAccount(primary_user, secondary_users, initial_balance)
                        ELSE accounts[a]]
    /\ last' = Call("create_joint_account", NoUser, 0, "ok")
    /\ UNCHANGED <<transactions, today>>

(***************************************************************************)
(* add_joint_transaction                                                   *)
(***************************************************************************)
Abs(x) == IF x < 0 THEN -x ELSE x

\* user.id in joint_owners or user.id == primary_owner
is_account_owner(account, uid) ==
    \/ Contains(Get(account.data, "joint_owners", << >>), uid)
    \/ uid = Get(account.data, "primary_owner", NoUser)

\* abs(amount) > require_approval_over; a missing limit is float('inf')
needs_approval(account, amount) ==
    /\ "require_approval_over" \in DOMAIN account.data
    /\ Abs(amount) > account.data.require_approval_over

\* the balance written by add_joint_transaction and approve_joint_transaction
new_balance(current_balance, transaction_type, amount) ==
    IF transaction_type = "expense" THEN current_balance - amount ELSE current_balance + amount

JointTransaction(account_id, account, uid, amount, transaction_type) ==
    LET na == needs_approval(account, amount) IN
    [user |-> uid,
     transaction_type |-> transaction_type,
     status |-> IF na THEN "pending" ELSE "active",
     amount |-> amount,
     date |-> today,
     primary_entity |-> account_id,
     transaction_data |-> [joint_account |-> TRUE,
                           initiated_by |-> uid,
                           needs_approval |-> na,
                           approved_by |-> IF na THEN << >> ELSE <<uid>>,
                           approval_status |-> IF na THEN "pending" ELSE "approved"]]

add_joint_transaction(a, uid, amount, transaction_type, cap) ==
    /\ a \in DOMAIN accounts
    /\ LET account == accounts[a] IN
       IF ~Get(account.data, "is_joint", FALSE)
       THEN /\ last' = Call("add_joint_transaction", NoUser, 0, "ValueError")
            /\ UNCHANGED <<accounts, transactions, today>>
       ELSE IF ~is_account_owner(account, uid)
       THEN /\ last' = Call("add_joint_transaction", NoUser, 0, "PermissionError")
            /\ UNCHANGED <<accounts, transactions, today>>
       ELSE /\ Len(transactions) < cap
            /\ transactions' = Append(transactions,
                                      JointTransaction(a, account, uid, amount, transaction_type))
            /\ accounts' =
                 IF ~needs_approval(account, amount)
                 THEN [accounts EXCEPT ![a] =
                         set_data_value(account, "balance",
                                        new_balance(balance(account), transaction_type, amount))]
                 ELSE accounts
            /\ last' = Call("add_joint_transaction", NoUser, 0, "ok")
            /\ UNCHANGED today

(***************************************************************************)
(* approve_joint_transaction                                               *)
(***************************************************************************)
\* [uid for uid in approved_by if uid != initiated_by]
other_approvals(approved_by, initiated_by) ==
    SelectSeq(approved_by, LAMBDA uid : uid # initiated_by)

\* a quorum that counts the initiator's own approval
enough_approvals_counting_initiator(approved_by, initiated_by) ==
    Len(approved_by) >= 1

\* len(other_approvals) >= 1
enough_approvals(approved_by, initiated_by) ==
    Len(other_approvals(approved_by, initiated_by)) >= 1

\* guards that let an approval through whatever the status of the transaction is
may_approve_any_status(transaction, account, uid) ==
    /\ Get(transaction.transaction_data, "needs_approval", FALSE)
    /\ is_account_owner(account, uid)
    /\ ~Contains(Get(transaction.transaction_data, "approved_by", << >>), uid)

\* the guards that make approve_joint_transaction return False
may_approve(transaction, account, uid) ==
    /\ transaction.status = "pending"
    /\ Get(transaction.transaction_data, "needs_approval", FALSE)
    /\ is_account_owner(account, uid)
    /\ ~Contains(Get(transaction.transaction_data, "approved_by", << >>), uid)

approve_joint_transaction(t, uid) ==
    /\ t \in 1..Len(transactions)
    /\ LET transaction == transactions[t]
           a == transaction.primary_entity
           account == accounts[a]
           td == transaction.transaction_data
       IN
       IF ~may_approve(transaction, account, uid)
       THEN /\ last' = Call("approve_joint_transaction", uid, t, "False")
            /\ UNCHANGED <<accounts, transactions, today>>
       ELSE LET approved_by == Append(Get(td, "approved_by", << >>), uid)
                td1 == Put(td, "approved_by", approved_by)
                enough == enough_approvals(approved_by, Get(td, "initiated_by", NoUser))
            IN
            /\ transactions' =
                 [transactions EXCEPT ![t] =
                    IF enough
                    THEN [transaction EXCEPT
                            !.status = "active",
                            !.transaction_data = Put(td1, "approval_status", "approved")]
                    ELSE [transaction EXCEPT !.transaction_data = td1]]
            /\ accounts' =
                 IF enough
                 THEN [accounts EXCEPT ![a] =
                         set_data_value(account, "balance",
                                        new_balance(balance(account),
                                                    transaction.transaction_type,
                                                    transaction.amount))]
                 ELSE accounts
            /\ last' = Call("approve_joint_transaction", uid, t, "True")
            /\ UNCHANGED today

(***************************************************************************)
(* EntityViewSet.upload_csv, one row of the file                           *)
(***************************************************************************)
CsvTransaction(a, uid, row_amount, row_date) ==
    [user |-> uid,
     transaction_type |-> IF row_amount < 0 THEN "expense" ELSE "income",
     status |-> "active",
     amount |-> Abs(row_amount),
     date |-> row_date,
     primary_entity |-> a,
     transaction_data |-> [amount |-> Abs(row_amount), date |-> row_date]]

\* row_saved: whether Transaction.objects.create accepted the row; a row it
\* refuses is appended to the response's error list and the loop goes on
upload_csv(a, uid, row_amount, row_saved, cap) ==
    IF ~(a \in DOMAIN accounts /\ accounts[a].user = uid /\ accounts[a].entity_type = "account")
    THEN /\ last' = Call("upload_csv", NoUser, 0, "404")
         /\ UNCHANGED <<accounts, transactions, today>>
    ELSE IF ~row_saved
    THEN /\ last' = Call("upload_csv", NoUser, 0, "row error")
         /\ UNCHANGED <<accounts, transactions, today>>
    ELSE /\ Len(transactions) < cap
         /\ transactions' = Append(transactions, CsvTransaction(a, uid, row_amount, today))
         /\ last' = Call("upload_csv", NoUser, 0, "ok")
         /\ UNCHANGED <<accounts, today>>

(***************************************************************************)
(* TransactionViewSet.bulk_update                                          *)
(***************************************************************************)
\* update_data carries the keys the request sent; status and primary_entity_id
\* are copied to every selected row owned by the caller
bulk_update_row(transaction, uid, selected, update_data) ==
    IF ~(selected /\ transaction.user = uid) THEN transaction
    ELSE [transaction EXCEPT
            !.status = Get(update_data, "status", @),
            !.primary_entity = Get(update_data, "primary_entity_id", @)]

bulk_update(uid, transaction_ids, update_data) ==
    IF transaction_ids = {}
    THEN /\ last' = Call("bulk_update", NoUser, 0, "400")
         /\ UNCHANGED <<accounts, transactions, today>>
    ELSE /\ transaction_ids \subseteq 1..Len(transactions)
         /\ transactions' =
              [t \in 1..Len(transactions) |->
                  bulk_update_row(transactions[t], uid, t \in transaction_ids, update_data)]
         /\ last' = Call("bulk_update", NoUser, 0, "ok")
         /\ UNCHANGED <<accounts, today>>

(***************************************************************************)
(* TransactionSerializer.create, for a recurring template row              *)
(***************************************************************************)
RecurringFrequencies == {"daily", "weekly", "biweekly", "monthly", "quarterly", "yearly"}

TemplateTransaction(uid, a, amount, frequency, next_execution) ==
    [user |-> uid,
     transaction_type |-> "recurring",
     status |-> "template",
     amount |-> amount,
     date |-> fromisoformat(next_execution),
     primary_entity |-> a,
     transaction_data |-> [frequency |-> frequency,
                           start_date |-> next_execution,
                           next_execution |-> next_execution]]

Templates == {t \in 1..Len(transactions) : transactions[t].status = "template"}

create_template(uid, a, amount, frequency, next_execution, cap) ==
    /\ a \in DOMAIN accounts
    /\ Len(transactions) < cap
    /\ Cardinality(Templates) < MaxTemplates
    /\ transactions' = Append(transactions,
                              TemplateTransaction(uid, a, amount, frequency, next_execution))
    /\ last' = Call("create_template", NoUser, 0, "ok")
    /\ UNCHANGED <<accounts, today>>

(***************************************************************************)
(* Transaction.execute_recurring / Transaction.update_next_execution       *)
(***************************************************************************)
\* the timedelta added for each frequency; no branch for any other frequency
frequency_days(frequency) ==
    CASE frequency = "daily" -> 1
      [] frequency = "weekly" -> 7
      [] frequency = "monthly" -> 30
      [] frequency = "yearly" -> 365
      [] OTHER -> 0

update_next_execution(transaction) ==
    LET td == transaction.transaction_data
        frequency == Get(td, "frequency", "monthly")
        current_next == Get(td, "next_execution", NoDate)
    IN
    IF transaction.transaction_type # "recurring" \/ current_next = NoDate
    THEN transaction
    ELSE [transaction EXCEPT !.transaction_data =
            Put(td, "next_execution",
                isoformat(fromisoformat(current_next) + frequency_days(frequency)))]

\* the guard of execute_recurring: anything else returns None
is_recurring_template(transaction) ==
    transaction.status = "template" /\ transaction.transaction_type = "recurring"

ExecutedTransaction(t, template) ==
    [user |-> template.user,
     transaction_type |-> Get(template.transaction_data, "original_type", "expense"),
     status |-> "active",
     amount |-> template.amount,
     date |-> today,
     primary_entity |-> template.primary_entity,
     transaction_data |-> [auto_generated |-> TRUE, template_id |-> t]]

execute_recurring(t, cap) ==
    /\ t \in 1..Len(transactions)
    /\ LET template == transactions[t] IN
       IF ~is_recurring_template(template)
       THEN /\ last' = Call("execute_recurring", NoUser, t, None)
            /\ UNCHANGED <<accounts, transactions, today>>
       ELSE /\ Len(transactions) < cap
            /\ transactions' = Append([transactions EXCEPT ![t] = update_next_execution(template)],
                                      ExecutedTransaction(t, template))
            /\ last' = Call("execute_recurring", NoUser, t, "ok")
            /\ UNCHANGED <<accounts, today>>

(***************************************************************************)
(* models_optimized.py: Transaction.execute_recurring_transaction,         *)
(* update_next_execution_date, total_executions.  A null column is an      *)
(* absent field of the row.                                                *)
(***************************************************************************)
Has(row, field) == field \in DOMAIN row

Drop(row, field) == [k \in DOMAIN row \ {field} |-> row[k]]

OptTemplates == {t \in 1..Len(otx) : otx[t].is_template}

\* the rows created from template t (metadata.source_template_id)
OptGenerated(t) == {e \in 1..Len(otx) : ~otx[e].is_template /\ otx[e].source_template_id = t}

\* the timedelta added for each of FREQUENCY_CHOICES
opt_frequency_days(frequency, frequency_interval) ==
    CASE frequency = "daily" -> frequency_interval
      [] frequency = "weekly" -> 7 * frequency_interval
      [] frequency = "biweekly" -> 14 * frequency_interval
      [] frequency = "monthly" -> 30 * frequency_interval
      [] frequency = "quarterly" -> 90 * frequency_interval
      [] frequency = "yearly" -> 365 * frequency_interval
      [] OTHER -> 0

\* total_executions of a template reads self.execution_logs, a relation that
\* no model declares: the property raises AttributeError
total_executions(self) == IF ~self.is_template THEN "0" ELSE "AttributeError"

\* the row as update_next_execution_date leaves it, and whether it raised
update_next_execution_date(self, now) ==
    IF ~self.is_template \/ ~Has(self, "frequency") \/
       self.frequency \notin RecurringFrequencies
    THEN [raised |-> FALSE, row |-> self]
    ELSE LET current_date == IF Has(self, "next_execution_date") THEN self.next_execution_date
                             ELSE IF Has(self, "start_date") THEN self.start_date
                             ELSE now
             next_date == current_date +
                          opt_frequency_days(self.frequency, self.frequency_interval)
         IN
         IF Has(self, "end_date") /\ next_date > self.end_date
         THEN [raised |-> FALSE,
               row |-> Drop([self EXCEPT !.is_active_template = FALSE], "next_execution_date")]
         ELSE IF Has(self, "max_executions") /\ self.max_executions # 0
         THEN [raised |-> total_executions(self) = "AttributeError", row |-> self]
         ELSE [raised |-> FALSE, row |-> Put(self, "next_execution_date", next_date)]

\* a guard that forgets the is_active_template flag
is_recurring_template_ignoring_active(self) == self.is_template

\* the guard of execute_recurring_transaction: anything else raises ValueError
is_active_recurring_template(self) == self.is_template /\ self.is_active_template

ActualTransaction(t, self) ==
    [is_template |-> FALSE,
     is_active_template |-> FALSE,
     transaction_type |-> self.transaction_type,
     status |-> "active",
     amount |-> self.amount,
     date |-> today,
     source_template_id |-> t]

ExecutionLog(t, status) == [object_id |-> t, status |-> status]

execute_recurring_transaction(t, cap) ==
    /\ t \in 1..Len(otx)
    /\ LET self == otx[t] IN
       IF ~is_active_recurring_template(self)
       THEN /\ last' = Call("execute_recurring_transaction", NoUser, t, "ValueError")
            /\ UNCHANGED <<otx, ologs, today>>
       ELSE /\ Len(otx) < cap
            /\ LET updated == update_next_execution_date(self, today) IN
               IF updated.raised
               THEN /\ otx' = Append(otx, ActualTransaction(t, self))
                    /\ ologs' = ologs \o <<ExecutionLog(t, "completed"), ExecutionLog(t, "failed")>>
                    /\ last' = Call("execute_recurring_transaction", NoUser, t, "AttributeError")
               ELSE /\ otx' = Append([otx EXCEPT ![t] = updated.row], ActualTransaction(t, self))
                    /\ ologs' = Append(ologs, ExecutionLog(t, "completed"))
                    /\ last' = Call("execute_recurring_transaction", NoUser, t, "ok")
            /\ UNCHANGED today

\* TransactionSerializer (serializers_optimized.py) creating a template row
OptTemplate(amount, frequency, start_date, optional, active) ==
    [k \in {"is_template", "is_active_template", "transaction_type", "status", "amount",
            "date", "frequency", "frequency_interval", "start_date", "next_execution_date"}
           \cup DOMAIN optional |->
        CASE k = "is_template" -> TRUE
          [] k = "is_active_template" -> active
          [] k = "transaction_type" -> "expense"
          [] k = "status" -> "active"
          [] k = "amount" -> amount
          [] k = "date" -> start_date
          [] k = "frequency" -> frequency
          [] k = "frequency_interval" -> 1
          [] k = "start_date" -> start_date
          [] k = "next_execution_date" -> start_date
          [] OTHER -> optional[k]]

opt_create_template(amount, frequency, start_date, optional, active, cap) ==
    /\ Len(otx) < cap
    /\ Cardinality(OptTemplates) < MaxTemplates
    /\ otx' = Append(otx, OptTemplate(amount, frequency, start_date, optional, active))
    /\ last' = Call("opt_create_template", NoUser, 0, "ok")
    /\ UNCHANGED <<ologs, today>>

(***************************************************************************)
(* The joint-account ledger: accounts, joint transactions, approvals, CSV  *)
(* rows and bulk updates, on one day                                       *)
(***************************************************************************)
SecondaryUsers == {<<2>>}
JointRequests == {<<500, "income">>, <<500, "expense">>, <<1500, "expense">>, <<1500, "income">>}
CsvAmounts == {-500, 500}
BulkStatuses == {"active", "pending", "cancelled"}

CreateJointAccount ==
    /\ impl = "models"
    /\ UNCHANGED <<impl, otx, ologs, entities, investVars, planVars, groups, membership, moreVars>>
    /\ \E id \in AccountIds, s \in SecondaryUsers, b \in InitialBalances :
        create_joint_account(id, 1, s, b)

AddJointTransaction ==
    /\ impl = "models"
    /\ UNCHANGED <<impl, otx, ologs, extVars>>
    /\ \E a \in AccountIds, uid \in Users, r \in JointRequests :
        add_joint_transaction(a, uid, r[1], r[2], MaxTx)

ApproveJointTransaction ==
    /\ impl = "models"
    /\ UNCHANGED <<impl, otx, ologs, extVars>>
    /\ \E t \in 1..Len(transactions), uid \in Users : approve_joint_transaction(t, uid)

UploadCsv ==
    /\ impl = "models"
    /\ UNCHANGED <<impl, otx, ologs, extVars>>
    /\ \E a \in AccountIds, uid \in Users, amount \in CsvAmounts, saved \in BOOLEAN :
        upload_csv(a, uid, amount, saved, MaxTx)

BulkUpdate ==
    /\ impl = "models"
    /\ UNCHANGED <<impl, otx, ologs, extVars>>
    /\ \E uid \in Users, ids \in SUBSET (1..Len(transactions)) :
        \/ \E st \in BulkStatuses : bulk_update(uid, ids, [status |-> st])
        \/ \E a \in DOMAIN accounts : bulk_update(uid, ids, [primary_entity_id |-> a])

Next ==
    \/ CreateJointAccount
    \/ AddJointTransaction
    \/ ApproveJointTransaction
    \/ UploadCsv
    \/ BulkUpdate

Spec == Init /\ [][Next]_vars

(***************************************************************************)
(* Recurring templates over time, served by models.py or by                *)
(* models_optimized.py                                                     *)
(***************************************************************************)
StartDates == {<<2024, 1, 1>>, <<2024, 1, 31>>}
\* neither, end_date 2024-02-29, or max_executions 2
OptionalFields == {<< >>, [end_date |-> 59], [max_executions |-> 2]}
\* the FREQUENCY_CHOICES the templates of models_optimized.py are created with
OptFrequencies == {"weekly", "monthly", "quarterly"}

CreateTemplate ==
    /\ impl = "models"
    /\ UNCHANGED <<impl, otx, ologs, extVars>>
    /\ \E a \in AccountIds, f \in RecurringFrequencies, d \in StartDates :
        create_template(1, a, 500, f, d, MaxRecTx)

ExecuteRecurring ==
    /\ impl = "models"
    /\ UNCHANGED <<impl, otx, ologs, extVars>>
    /\ \E t \in 1..Len(transactions) : execute_recurring(t, MaxRecTx)

OptCreateTemplate ==
    /\ impl = "optimized"
    /\ UNCHANGED <<impl, accounts, transactions, extVars>>
    /\ \E f \in OptFrequencies, d \in StartDates, o \in OptionalFields, act \in BOOLEAN :
        opt_create_template(500, f, ToOrdinal(d), o, act, MaxRecTx)

OptExecuteRecurring ==
    /\ impl = "optimized"
    /\ UNCHANGED <<impl, accounts, transactions, extVars>>
    /\ \E t \in 1..Len(otx) : execute_recurring_transaction(t, MaxRecTx)

\* the clock moves from the first day of a month to the first day of the next
Tick ==
    /\ today + DaysInMonth(FromOrdinal(today)[1], FromOrdinal(today)[2]) <= MaxDay
    /\ today' = today + DaysInMonth(FromOrdinal(today)[1], FromOrdinal(today)[2])
    /\ last' = Call("tick", NoUser, 0, "ok")
    /\ UNCHANGED <<accounts, transactions, impl, otx, ologs, extVars>>

InitRecurring ==
    /\ accounts = << >>
    /\ transactions = << >>
    /\ today = 0
    /\ impl \in {"models", "optimized"}
    /\ otx = << >>
    /\ ologs = << >>
    /\ last = NoCall
    /\ entities = << >>
    /\ RestInit

NextRecurring ==
    \/ CreateJointAccount
    \/ CreateTemplate
    \/ ExecuteRecurring
    \/ OptCreateTemplate
    \/ OptExecuteRecurring
    \/ Tick

SpecRecurring == InitRecurring /\ [][NextRecurring]_vars

(***************************************************************************)
(* TransactionViewSet.summary                                              *)
(***************************************************************************)
RECURSIVE SumAmounts(_, _)
SumAmounts(rows, ids) ==
    IF ids = {} THEN 0
    ELSE LET t == CHOOSE x \in ids : TRUE IN rows[t].amount + SumAmounts(rows, ids \ {t})

\* get_queryset: the caller's rows; the totals filter on transaction_type alone
summary(uid) ==
    LET mine == {t \in 1..Len(transactions) : transactions[t].user = uid}
        income_total == SumAmounts(transactions,
                                   {t \in mine : transactions[t].transaction_type = "income"})
        expense_total == SumAmounts(transactions,
                                    {t \in mine : transactions[t].transaction_type = "expense"})
    IN [total_income |-> income_total,
        total_expenses |-> expense_total,
        net_income |-> income_total - expense_total,
        transaction_count |-> Cardinality(mine)]

(***************************************************************************)
(* Properties                                                              *)
(***************************************************************************)
\* the amount of a row as the ledger signs it: expenses count negative
signed_amount(transaction) ==
    IF transaction.transaction_type = "expense" THEN -transaction.amount ELSE transaction.amount

RECURSIVE SumSigned(_)
SumSigned(ids) ==
    IF ids = {} THEN 0
    ELSE LET t == CHOOSE x \in ids : TRUE IN
         signed_amount(transactions[t]) + SumSigned(ids \ {t})

\* the balance obtained by replaying the active rows of account a from its initial balance
ReplayBalance(a) ==
    accounts[a].initial_balance +
    SumSigned({t \in 1..Len(transactions) :
                  transactions[t].primary_entity = a /\ transactions[t].status = "active"})

\* C1: every account's stored balance equals the replay of its active events
\* from the initial balance.
C1_BalanceEqualsReplay ==
    \A a \in DOMAIN accounts : balance(accounts[a]) = ReplayBalance(a)

approved_by_of(transaction) == Get(transaction.transaction_data, "approved_by", << >>)
initiated_by_of(transaction) == Get(transaction.transaction_data, "initiated_by", NoUser)

\* the step is the call approve_joint_transaction(t, uid)
ApproveStep(t, uid) ==
    /\ last'.op = "approve_joint_transaction"
    /\ last'.tx = t
    /\ last'.user = uid

\* C2: an approval of a pending joint transaction by an owner other than the
\* initiator makes it active and moves the account balance by exactly its
\* signed amount.
C2_DistinctApproverActivates ==
    [][\A t \in 1..Len(transactions), uid \in Users :
          LET tr == transactions[t]
              a == tr.primary_entity
          IN (/\ ApproveStep(t, uid)
              /\ tr.status = "pending"
              /\ Get(tr.transaction_data, "needs_approval", FALSE)
              /\ uid # initiated_by_of(tr)
              /\ is_account_owner(accounts[a], uid))
             => /\ transactions'[t].status = "active"
                /\ balance(accounts'[a]) = balance(accounts[a]) + signed_amount(tr)]_vars

\* C3: an approval of a pending transaction after which every recorded
\* approver is the initiator leaves it pending and leaves every balance as it was.
C3_InitiatorAloneStaysPending ==
    [][\A t \in 1..Len(transactions), uid \in Users :
          (/\ ApproveStep(t, uid)
           /\ transactions[t].status = "pending"
           /\ \A i \in 1..Len(approved_by_of(transactions'[t])) :
                 approved_by_of(transactions'[t])[i] = initiated_by_of(transactions[t]))
          => /\ transactions'[t].status = "pending"
             /\ accounts' = accounts]_vars

\* the initiator's own approval was recorded and the transaction is still pending
C3_Witness ==
    /\ last.op = "approve_joint_transaction"
    /\ last.result = "True"
    /\ last.tx \in 1..Len(transactions)
    /\ transactions[last.tx].status = "pending"
    /\ last.user = initiated_by_of(transactions[last.tx])
    /\ approved_by_of(transactions[last.tx]) = <<last.user>>

\* the amount of the row was applied to the balance when it became active
Applied(transaction) ==
    Get(transaction.transaction_data, "approval_status", "none") = "approved"

\* C4: cancelling an active event whose amount had been applied takes exactly
\* that amount back out of the balance, and cancelling a cancelled event
\* changes no balance.
C4_CancelReversesOnce ==
    [][\A t \in 1..Len(transactions) :
          LET tr == transactions[t]
              a == tr.primary_entity
          IN /\ (tr.status = "active" /\ Applied(tr) /\ transactions'[t].status = "cancelled")
                => balance(accounts'[a]) = balance(accounts[a]) - signed_amount(tr)
             /\ (tr.status = "cancelled" /\ transactions'[t].status = "cancelled")
                => accounts' = accounts]_vars

Generated(t) ==
    {e \in 1..Len(transactions) : Get(transactions[e].transaction_data, "template_id", 0) = t}

\* the calendar date k months after ymd, the day clamped to the length of the month
AddMonths(ymd, k) ==
    LET months == ymd[1] * 12 + (ymd[2] - 1) + k
        y == months \div 12
        m == (months % 12) + 1
        d == IF ymd[3] > DaysInMonth(y, m) THEN DaysInMonth(y, m) ELSE ymd[3]
    IN <<y, m, d>>

CalendarMonths(frequency) ==
    CASE frequency = "monthly" -> 1
      [] frequency = "quarterly" -> 3
      [] frequency = "yearly" -> 12

\* C5: the next execution date of a monthly, quarterly or yearly template that
\* has run k times is its start date moved by k periods of calendar months,
\* anchored on the start day.
C5_AdvancesByCalendarMonths ==
    /\ \A t \in Templates :
          LET td == transactions[t].transaction_data IN
          td.frequency \in {"monthly", "quarterly", "yearly"}
          => td.next_execution =
                AddMonths(td.start_date, CalendarMonths(td.frequency) * Cardinality(Generated(t)))
    /\ \A t \in OptTemplates :
          LET self == otx[t] IN
          (/\ self.frequency \in {"monthly", "quarterly", "yearly"}
           /\ ~Has(self, "max_executions")
           /\ Has(self, "next_execution_date"))
          => FromOrdinal(self.next_execution_date) =
                AddMonths(FromOrdinal(self.start_date),
                          CalendarMonths(self.frequency) * Cardinality(OptGenerated(t)))

\* the position of row e among the rows ids, in order of creation
Rank(ids, e) == Cardinality({x \in ids : x <= e})

\* C6: a monthly template that started on 2024-01-01 and has run three times
\* has produced active events dated 2024-01-01, 2024-02-01 and 2024-03-01, and
\* its next execution date is 2024-04-01.
C6_ThreeMonthlyExecutions ==
    /\ \A t \in Templates :
          LET td == transactions[t].transaction_data IN
          (/\ td.frequency = "monthly"
           /\ td.start_date = <<2024, 1, 1>>
           /\ Cardinality(Generated(t)) = 3)
          => /\ \A e \in Generated(t) :
                   /\ transactions[e].status = "active"
                   /\ transactions[e].date =
                         ToOrdinal(AddMonths(td.start_date, Rank(Generated(t), e) - 1))
             /\ td.next_execution = <<2024, 4, 1>>
    /\ \A t \in OptTemplates :
          LET self == otx[t] IN
          (/\ self.frequency = "monthly"
           /\ self.start_date = ToOrdinal(<<2024, 1, 1>>)
           /\ ~Has(self, "end_date") /\ ~Has(self, "max_executions")
           /\ Cardinality(OptGenerated(t)) = 3)
          => /\ \A e \in OptGenerated(t) :
                   /\ otx[e].status = "active"
                   /\ otx[e].date =
                         ToOrdinal(AddMonths(FromOrdinal(self.start_date),
                                             Rank(OptGenerated(t), e) - 1))
             /\ Has(self, "next_execution_date")
             /\ self.next_execution_date = ToOrdinal(<<2024, 4, 1>>)

\* C7: every successful execute_recurring appends exactly one active row, moves
\* the template's next execution date strictly later, and leaves the rest of
\* the template row as it was, still an executable template.
C7_ExecuteAdvances ==
    [][\A t \in 1..Len(transactions) :
          (last'.op = "execute_recurring" /\ last'.tx = t /\ last'.result = "ok")
          => /\ Len(transactions') = Len(transactions) + 1
             /\ transactions'[Len(transactions')].status = "active"
             /\ \A e \in 1..Len(transactions) : e # t => transactions'[e] = transactions[e]
             /\ fromisoformat(transactions'[t].transaction_data.next_execution) >
                   fromisoformat(transactions[t].transaction_data.next_execution)
             /\ transactions'[t] =
                   [transactions[t] EXCEPT !.transaction_data.next_execution =
                       transactions'[t].transaction_data.next_execution]
             /\ transactions'[t].status = "template"]_vars

\* C8: a template never has more generated events than its max_executions, and
\* a template that is still active has a next execution date no later than its
\* end_date.
C8_StopsAtEndCondition ==
    \A t \in OptTemplates :
        LET self == otx[t] IN
        /\ Has(self, "max_executions")
           => Cardinality(OptGenerated(t)) <= self.max_executions
        /\ (Has(self, "end_date") /\ self.is_active_template /\ Has(self, "next_execution_date"))
           => self.next_execution_date <= self.end_date

AllowedStatusChanges ==
    {<<"pending", "active">>, <<"pending", "cancelled">>, <<"active", "cancelled">>}

\* C11: the status of an event only ever changes from pending to active, from
\* pending to cancelled or from active to cancelled.
C11_StatusMovesForward ==
    [][\A t \in 1..Len(transactions) :
          transactions'[t].status # transactions[t].status
          => <<transactions[t].status, transactions'[t].status>> \in AllowedStatusChanges]_vars

(***************************************************************************)
(* Entity rows: EntitySerializer.create under Entity.Meta.unique_together  *)
(***************************************************************************)
EntityOwners == {1, 2}
EntityTypes == {"account", "contact"}
\* CharField(blank=True): an entity created without a code has code ''
EntityCodes == {"", "JOINT_HOME"}

\* the row Entity.objects.create writes: tags default list, relationships default dict
NewEntity(uid, entity_type, code) ==
    [user |-> uid, entity_type |-> entity_type, code |-> code,
     tags |-> << >>, relationships |-> << >>]

\* unique_together = ['user', 'entity_type', 'code']: the constraint compares
\* the three columns whatever the code is
unique_together(rows, row) ==
    \A e \in 1..Len(rows) :
        <<rows[e].user, rows[e].entity_type, rows[e].code>> #
        <<row.user, row.entity_type, row.code>>

create_entity(uid, entity_type, code) ==
    LET row == NewEntity(uid, entity_type, code) IN
    /\ IF unique_together(entities, row)
       THEN /\ Len(entities) < MaxEntities
            /\ entities' = Append(entities, row)
            /\ last' = Call("create_entity", uid, 0, "ok")
       ELSE /\ last' = Call("create_entity", uid, 0, "IntegrityError")
            /\ UNCHANGED entities
    /\ UNCHANGED <<baseVars, restVars>>

CreateEntity ==
    /\ impl = "models"
    /\ \E uid \in EntityOwners, entity_type \in EntityTypes, code \in EntityCodes :
        create_entity(uid, entity_type, code)

NextEntity == CreateEntity

SpecEntity == Init /\ [][NextEntity]_vars

\* C12: no two entities share (owner, kind, code) when the code is not empty;
\* creating an entity whose (owner, kind, code) exists with a non-empty code
\* fails and leaves the store unchanged; creating an entity with an empty code
\* is never rejected.
C12_UniqueNonEmptyCode ==
    [][/\ \A e1, e2 \in 1..Len(entities') :
             (/\ e1 # e2
              /\ entities'[e1].code # ""
              /\ entities'[e1].user = entities'[e2].user
              /\ entities'[e1].entity_type = entities'[e2].entity_type)
             => entities'[e1].code # entities'[e2].code
       /\ \A uid \in EntityOwners, entity_type \in EntityTypes, code \in EntityCodes :
             create_entity(uid, entity_type, code)
             => IF code # "" /\ ~unique_together(entities, NewEntity(uid, entity_type, code))
                THEN last'.result = "IntegrityError" /\ entities' = entities
                ELSE last'.result = "ok"]_vars

(***************************************************************************)
(* Entity.add_tag / remove_tag / has_tag / set_tags and                    *)
(* Entity.add_relationship.  A string is the sequence of its characters.   *)
(***************************************************************************)
\* str.lower on one character
lower_char(c) ==
    CASE c = "A" -> "a"
      [] c = "B" -> "b"
      [] OTHER -> c

\* str.lower
lower(str) == [i \in 1..Len(str) |-> lower_char(str[i])]

RECURSIVE lstrip(_)
lstrip(str) == IF str # << >> /\ Head(str) = " " THEN lstrip(Tail(str)) ELSE str

RECURSIVE rstrip(_)
rstrip(str) ==
    IF str # << >> /\ str[Len(str)] = " " THEN rstrip(SubSeq(str, 1, Len(str) - 1)) ELSE str

\* str.strip
strip(str) == rstrip(lstrip(str))

\* list.remove: the list without the first occurrence of x
RECURSIVE remove(_, _)
remove(list, x) ==
    IF list = << >> THEN << >>
    ELSE IF Head(list) = x THEN Tail(list)
    ELSE <<Head(list)>> \o remove(Tail(list), x)

\* [tag.strip().lower() for tag in tag_list if tag.strip()]
RECURSIVE stripped_lowered(_)
stripped_lowered(tag_list) ==
    IF tag_list = << >> THEN << >>
    ELSE IF strip(Head(tag_list)) # << >>
         THEN <<lower(strip(Head(tag_list)))>> \o stripped_lowered(Tail(tag_list))
         ELSE stripped_lowered(Tail(tag_list))

has_tag(entity, tag_name) == Contains(entity.tags, lower(strip(tag_name)))

\* EntityViewSet.add_tag: an empty tag is answered 400, anything else goes to Entity.add_tag
add_tag(e, tag_name) ==
    /\ e \in 1..Len(entities)
    /\ IF tag_name = << >>
       THEN /\ last' = Call("add_tag", NoUser, e, "400")
            /\ UNCHANGED entities
       ELSE LET name == lower(strip(tag_name)) IN
            /\ entities' = IF name # << >> /\ ~Contains(entities[e].tags, name)
                           THEN [entities EXCEPT ![e].tags = Append(@, name)]
                           ELSE entities
            /\ last' = Call("add_tag", NoUser, e, "200")
    /\ UNCHANGED <<baseVars, restVars>>

\* EntityViewSet.remove_tag and Entity.remove_tag
remove_tag(e, tag_name) ==
    /\ e \in 1..Len(entities)
    /\ IF tag_name = << >>
       THEN /\ last' = Call("remove_tag", NoUser, e, "400")
            /\ UNCHANGED entities
       ELSE /\ entities' = [entities EXCEPT ![e].tags = remove(@, lower(strip(tag_name)))]
            /\ last' = Call("remove_tag", NoUser, e, "200")
    /\ UNCHANGED <<baseVars, restVars>>

\* EntityViewSet.set_tags and Entity.set_tags
set_tags(e, tag_list) ==
    /\ e \in 1..Len(entities)
    /\ entities' = [entities EXCEPT ![e].tags = stripped_lowered(tag_list)]
    /\ last' = Call("set_tags", NoUser, e, "200")
    /\ UNCHANGED <<baseVars, restVars>>

\* a target id is passed as a uuid.UUID object or as its string form
TargetKinds == {"UUID", "str"}

\* target_id in relationships[relationship_type]: the stored list holds
\* strings, and a UUID object equals no string
target_in(items, target) == target.kind = "str" /\ Contains(items, target.text)

\* a relationship value is a list of strings or, when not a list, one string
ListValue(items) == [is_list |-> TRUE, items |-> items]
StringValue(text) == [is_list |-> FALSE, items |-> <<text>>]

add_relationship(e, relationship_type, target) ==
    /\ e \in 1..Len(entities)
    /\ LET current == Get(entities[e].relationships, relationship_type, ListValue(<< >>))
           value == IF current.is_list
                    THEN IF ~target_in(current.items, target)
                         THEN ListValue(Append(current.items, target.text))
                         ELSE current
                    ELSE StringValue(target.text)
       IN /\ Len(value.items) <= MaxLinks
          /\ entities' = [entities EXCEPT ![e].relationships =
                              Put(@, relationship_type, value)]
    /\ last' = Call("add_relationship", NoUser, e, "ok")
    /\ UNCHANGED <<baseVars, restVars>>

(***************************************************************************)
(* Tags and relationships of one entity: the joint account entity as       *)
(* create_joint_account writes it                                          *)
(***************************************************************************)
TagInputs == {<<"a">>, <<"A">>, <<" ", "b">>, <<" ">>, << >>}
TagLists == UNION {[1..n -> TagInputs] : n \in 0..MaxTagList}
RelationNames == {"linked_accounts", "owner_type"}
LinkTargets == {[kind |-> k, text |-> t] : k \in TargetKinds, t \in {"t1", "t2"}}

JointAccountEntity ==
    [user |-> 1, entity_type |-> "account", code |-> "JOINT_HOME",
     tags |-> << >>,
     relationships |-> [joint_owners |-> ListValue(<<"2">>),
                        owner_type |-> StringValue("joint")]]

AddTag ==
    /\ impl = "models"
    /\ \E tag_name \in TagInputs : add_tag(1, tag_name)

RemoveTag ==
    /\ impl = "models"
    /\ \E tag_name \in TagInputs : remove_tag(1, tag_name)

SetTags ==
    /\ impl = "models"
    /\ \E tag_list \in TagLists : set_tags(1, tag_list)

AddRelationship ==
    /\ impl = "models"
    /\ \E relationship_type \in RelationNames, target \in LinkTargets :
        add_relationship(1, relationship_type, target)

InitTags ==
    /\ accounts = << >>
    /\ transactions = << >>
    /\ today = 0
    /\ impl = "models"
    /\ otx = << >>
    /\ ologs = << >>
    /\ last = NoCall
    /\ entities = <<JointAccountEntity>>
    /\ RestInit

NextTags ==
    \/ AddTag
    \/ RemoveTag
    \/ SetTags
    \/ AddRelationship

SpecTags == InitTags /\ [][NextTags]_vars

\* the list without the repeated occurrences of its elements, in first-occurrence order
RECURSIVE Distinct(_, _)
Distinct(list, seen) ==
    IF list = << >> THEN << >>
    ELSE IF Head(list) \in seen THEN Distinct(Tail(list), seen)
    ELSE <<Head(list)>> \o Distinct(Tail(list), seen \cup {Head(list)})

\* the stripped, lower-cased, non-empty tags of a request, one by one
NormalizedTags(tag_list) ==
    LET each == [i \in 1..Len(tag_list) |-> lower(strip(tag_list[i]))]
    IN SelectSeq(each, LAMBDA t : t # << >>)

\* C13: set_tags(L) stores exactly the distinct stripped, lower-cased,
\* non-empty tags of L in first-occurrence order.
C13_SetTagsDedups ==
    [][\A tag_list \in TagLists :
          set_tags(1, tag_list)
          => entities'[1].tags = Distinct(NormalizedTags(tag_list), {})]_vars

\* C14: the tag list of every entity holds only lower-case strings and holds
\* no string twice.
C14_TagsLowerCaseDistinct ==
    \A e \in 1..Len(entities) :
        LET tags == entities[e].tags IN
        /\ \A i \in 1..Len(tags) : tags[i] = lower(tags[i])
        /\ \A i, j \in 1..Len(tags) : tags[i] = tags[j] => i = j

\* how often x occurs in the list
Count(list, x) == Cardinality({i \in 1..Len(list) : list[i] = x})

\* C15: after add_relationship on a list relation the target occurs in that
\* list exactly once, whether it was passed as a UUID or as a string, and
\* every other relation of the entity is as it was.
C15_LinkOnce ==
    [][\A relationship_type \in RelationNames, target \in LinkTargets :
          (/\ add_relationship(1, relationship_type, target)
           /\ Get(entities[1].relationships, relationship_type, ListValue(<< >>)).is_list)
          => /\ Count(entities'[1].relationships[relationship_type].items, target.text) = 1
             /\ \A other \in DOMAIN entities[1].relationships \ {relationship_type} :
                   entities'[1].relationships[other] = entities[1].relationships[other]]_vars

(***************************************************************************)
(* Investments: models_optimized.py Investment and its unified Transaction *)
(* rows, serializers_optimized.py, recurring_investment_views.py           *)
(***************************************************************************)
MaxInvTx == 2

InvestmentPrices == {10, 12}
InvestmentQuantities == {1, 5}
InvestmentAmounts == {10, 50}
InvestmentTypes == {"buy", "sell"}
InvestmentStatuses == {"active", "cancelled"}

\* Sum(field) over the rows of one investment with the given type and status 'active';
\* an empty aggregate is None in Django and "or Decimal('0')" makes it 0
RECURSIVE SumActive(_, _, _, _)
SumActive(rows, inv, transaction_type, field) ==
    IF rows = << >> THEN 0
    ELSE (IF /\ Head(rows).investment = inv
             /\ Head(rows).transaction_type = transaction_type
             /\ Head(rows).status = "active"
          THEN Head(rows)[field] ELSE 0)
         + SumActive(Tail(rows), inv, transaction_type, field)

current_quantity(rows, inv) ==
    LET buy_quantity == SumActive(rows, inv, "buy", "quantity")
        sell_quantity == SumActive(rows, inv, "sell", "quantity")
    IN  buy_quantity - sell_quantity

current_value(invs, rows, inv) == current_quantity(rows, inv) * invs[inv].current_price

total_invested(rows, inv) ==
    LET buy_total == SumActive(rows, inv, "buy", "amount")
        sell_total == SumActive(rows, inv, "sell", "amount")
    IN  buy_total - sell_total

total_gain_loss(invs, rows, inv) == current_value(invs, rows, inv) - total_invested(rows, inv)

\* InvestmentSerializer.create: a new row; current_price is a writable field
create_investment(current_price) ==
    /\ Len(investments) < 1
    /\ investments' = Append(investments, [current_price |-> current_price])
    /\ last' = Call("create_investment", 1, Len(investments) + 1, "201")
    /\ UNCHANGED <<notInvest, itx>>

\* InvestmentSerializer update of current_price
update_investment(inv, current_price) ==
    /\ inv \in DOMAIN investments
    /\ investments' = [investments EXCEPT ![inv].current_price = current_price]
    /\ last' = Call("update_investment", 1, inv, "200")
    /\ UNCHANGED <<notInvest, itx>>

\* TransactionSerializer.validate and create for transaction_category 'investment':
\* the investment, the quantity and the price are required, the amount and the status
\* are what the client sends
create_investment_transaction(inv, transaction_type, quantity, price_per_unit, amount, status) ==
    /\ inv \in DOMAIN investments
    /\ Len(itx) < MaxInvTx
    /\ itx' = Append(itx, [investment |-> inv, transaction_type |-> transaction_type,
                           quantity |-> quantity, price_per_unit |-> price_per_unit,
                           amount |-> amount, status |-> status])
    /\ last' = Call("create_investment_transaction", 1, Len(itx) + 1, "201")
    /\ UNCHANGED <<notInvest, investments>>

\* the field names of the only InvestmentTransaction model of the repository
InvestmentTransactionFields ==
    {"investment", "transaction_type", "quantity", "price_per_share", "total_amount",
     "fees", "transaction_date", "linked_transaction", "notes", "external_id"}

\* the keyword arguments InvestmentViewSet.buy passes to InvestmentTransaction.objects.create
BuyKeywords ==
    {"investment", "transaction_type", "quantity", "price_per_unit", "total_amount",
     "fees", "date", "notes"}

\* InvestmentViewSet.buy: a missing quantity or price is answered 400; the create call
\* names fields the model does not have, the TypeError it raises is caught and answered
\* 400 before the price is touched; otherwise a row is stored and the price follows
buy(inv, quantity, price_per_unit) ==
    /\ inv \in DOMAIN investments
    /\ IF quantity = 0 \/ price_per_unit = 0
       THEN /\ last' = Call("buy", 1, inv, "400")
            /\ UNCHANGED <<investments, itx>>
       ELSE IF ~(BuyKeywords \subseteq InvestmentTransactionFields)
       THEN /\ last' = Call("buy", 1, inv, "400")
            /\ UNCHANGED <<investments, itx>>
       ELSE /\ Len(itx) < MaxInvTx
            /\ itx' = Append(itx, [investment |-> inv, transaction_type |-> "buy",
                                   quantity |-> quantity, price_per_unit |-> price_per_unit,
                                   amount |-> quantity * price_per_unit, status |-> "active"])
            /\ investments' = [investments EXCEPT ![inv].current_price = price_per_unit]
            /\ last' = Call("buy", 1, inv, "200")
    /\ UNCHANGED notInvest

CreateInvestment ==
    /\ impl = "optimized"
    /\ \E current_price \in InvestmentPrices : create_investment(current_price)

UpdateInvestment ==
    /\ impl = "optimized"
    /\ \E current_price \in InvestmentPrices : update_investment(1, current_price)

CreateInvestmentTransaction ==
    /\ impl = "optimized"
    /\ \E transaction_type \in InvestmentTypes, quantity \in InvestmentQuantities,
          price_per_unit \in InvestmentPrices, amount \in InvestmentAmounts,
          status \in InvestmentStatuses :
        create_investment_transaction(1, transaction_type, quantity, price_per_unit,
                                      amount, status)

Buy ==
    /\ impl = "optimized"
    /\ \E quantity \in InvestmentQuantities \cup {0}, price_per_unit \in InvestmentPrices :
        buy(1, quantity, price_per_unit)

InitInvest ==
    /\ accounts = << >>
    /\ transactions = << >>
    /\ today = 0
    /\ impl = "optimized"
    /\ otx = << >>
    /\ ologs = << >>
    /\ last = NoCall
    /\ entities = << >>
    /\ RestInit

NextInvest ==
    \/ CreateInvestment
    \/ UpdateInvestment
    \/ CreateInvestmentTransaction
    \/ Buy

SpecInvest == InitInvest /\ [][NextInvest]_vars

\* C16: a buy of a quantity at a price through the buy endpoint is an active buy event
\* of the investment: the current quantity grows by the quantity, the total invested by
\* quantity x price, and the current value is the new quantity x the current price, so
\* that one buy of 5 at 10 on an investment priced 10 gives value 50, invested 50, gain 0
C16_BuyIsCounted ==
    [][\A quantity \in InvestmentQuantities, price_per_unit \in InvestmentPrices :
          buy(1, quantity, price_per_unit)
          => /\ current_quantity(itx', 1) = current_quantity(itx, 1) + quantity
             /\ total_invested(itx', 1) = total_invested(itx, 1) + quantity * price_per_unit
             /\ current_value(investments', itx', 1)
                  = current_quantity(itx', 1) * investments'[1].current_price
             /\ total_gain_loss(investments', itx', 1)
                  = current_value(investments', itx', 1) - total_invested(itx', 1)]_vars

(***************************************************************************)
(* Plan customization: models_backup_20250805_044632.py SubscriptionPlan,  *)
(* PlanAddon, UserPlanCustomization, UserAddonInstance;                    *)
(* plan_customization_views.py; subscription_views.py                      *)
(***************************************************************************)
MaxAddonInstances == 2

\* SubscriptionPlan rows, id = index; prices in whole currency units
SubscriptionPlans ==
    <<[plan_type |-> "free", price |-> 0, ai_credits_per_month |-> 100],
      [plan_type |-> "premium", price |-> 10, ai_credits_per_month |-> 500]>>

\* PlanAddon rows, id = index; the yearly price is a multiple of 12, so that the monthly
\* share is exact in the two decimal places of the stored cost; compatible_plans holds
\* plan ids, an empty set leaves the add-on open to every plan
PlanAddons ==
    <<[billing_cycle |-> "monthly", price |-> 5, credits_amount |-> 50,
       is_stackable |-> TRUE, max_quantity |-> 2, compatible_plans |-> {}],
      [billing_cycle |-> "yearly", price |-> 24, credits_amount |-> 0,
       is_stackable |-> FALSE, max_quantity |-> 1, compatible_plans |-> {2}],
      [billing_cycle |-> "one_time", price |-> 7, credits_amount |-> 20,
       is_stackable |-> TRUE, max_quantity |-> 2, compatible_plans |-> {}]>>

\* addon.compatible_plans.exists() and base_plan not in addon.compatible_plans.all()
incompatible(addon, base_plan) ==
    /\ PlanAddons[addon].compatible_plans # {}
    /\ base_plan \notin PlanAddons[addon].compatible_plans

AddonQuantities == {1, 2}

\* the loop of calculate_totals over addon_instances.filter(is_active=True), from the
\* totals so far
RECURSIVE add_active_addons(_, _)
add_active_addons(totals, rows) ==
    IF rows = << >> THEN totals
    ELSE LET addon_instance == Head(rows)
             addon == PlanAddons[addon_instance.addon]
             quantity == addon_instance.quantity
             credits == totals.total_ai_credits + addon.credits_amount * quantity
             cost == IF addon.billing_cycle = "monthly"
                     THEN totals.total_monthly_cost + addon.price * quantity
                     ELSE IF addon.billing_cycle = "yearly"
                     THEN totals.total_monthly_cost + (addon.price * quantity) \div 12
                     ELSE totals.total_monthly_cost
         IN  add_active_addons(
                 IF addon_instance.is_active
                 THEN [total_ai_credits |-> credits, total_monthly_cost |-> cost]
                 ELSE totals,
                 Tail(rows))

\* UserPlanCustomization.calculate_totals for the subscription's plan and the stored rows
calculate_totals(plan, rows) ==
    LET base_plan == SubscriptionPlans[plan]
    IN  add_active_addons([total_ai_credits |-> base_plan.ai_credits_per_month,
                           total_monthly_cost |-> base_plan.price], rows)

\* the ids of the rows of one add-on
InstancesOf(rows, addon) == {i \in DOMAIN rows : rows[i].addon = addon}

\* customization.addon_instances.filter(is_active=True).update(is_active=False)
deactivate_all(rows) == [i \in DOMAIN rows |-> [rows[i] EXCEPT !.is_active = FALSE]]

\* the loop of customize_plan over addons_data: get_or_create by (customization, addon),
\* an existing row gets the quantity and is activated again; two rows of the add-on
\* make get_or_create raise MultipleObjectsReturned
RECURSIVE set_addons(_, _)
set_addons(rows, addons_data) ==
    IF addons_data = << >> THEN [raised |-> FALSE, rows |-> rows]
    ELSE LET addon == Head(addons_data).addon_id
             quantity == Head(addons_data).quantity
             found == InstancesOf(rows, addon)
         IN  IF Cardinality(found) > 1 THEN [raised |-> TRUE, rows |-> rows]
             ELSE IF found = {}
             THEN set_addons(Append(rows, [addon |-> addon, quantity |-> quantity,
                                           is_active |-> TRUE]),
                             Tail(addons_data))
             ELSE LET i == CHOOSE i \in found : TRUE
                  IN  set_addons([rows EXCEPT ![i].quantity = quantity,
                                              ![i].is_active = TRUE],
                                 Tail(addons_data))

\* UserPlanCustomizationViewSet.customize_plan, one atomic transaction: the subscription
\* takes the base plan, the active add-ons are switched off, the requested ones are
\* stored, the totals are recalculated last
customize_plan(base_plan_id, addons_data) ==
    LET result == set_addons(deactivate_all(addon_instances), addons_data)
    IN  /\ IF result.raised
           THEN /\ last' = Call("customize_plan", 1, base_plan_id, "500")
                /\ UNCHANGED planVars
           ELSE /\ Len(result.rows) <= MaxAddonInstances
                /\ subscription' = base_plan_id
                /\ addon_instances' = result.rows
                /\ customization' = calculate_totals(base_plan_id, result.rows)
                /\ last' = Call("customize_plan", 1, base_plan_id, "200")
        /\ UNCHANGED notPlan

\* UserPlanCustomizationViewSet.get_object: the customization of the subscription,
\* created with its totals calculated when there is none
get_object == IF customization = << >> THEN calculate_totals(subscription, addon_instances)
              ELSE customization

\* the active row of the add-on, 0 when there is none (.first())
ActiveInstance(addon) ==
    IF \E i \in InstancesOf(addon_instances, addon) : addon_instances[i].is_active
    THEN CHOOSE i \in InstancesOf(addon_instances, addon) :
             /\ addon_instances[i].is_active
             /\ \A j \in InstancesOf(addon_instances, addon) :
                    addon_instances[j].is_active => i <= j
    ELSE 0

\* UserPlanCustomizationViewSet.add_addon: without a subscription 404; an add-on that
\* is not compatible with the plan 400; an active row of a stackable add-on takes the
\* added quantity up to max_quantity, otherwise 400; with no active row a new one is
\* created; UserAddonInstance.save recalculates the totals
add_addon(addon, quantity) ==
    LET existing == ActiveInstance(addon) IN
    /\ IF subscription = 0
       THEN /\ last' = Call("add_addon", 1, addon, "404")
            /\ UNCHANGED planVars
       ELSE IF incompatible(addon, subscription)
       THEN /\ last' = Call("add_addon", 1, addon, "400")
            /\ customization' = get_object
            /\ UNCHANGED <<subscription, addon_instances>>
       ELSE IF existing # 0 /\ ~PlanAddons[addon].is_stackable
       THEN /\ last' = Call("add_addon", 1, addon, "400")
            /\ customization' = get_object
            /\ UNCHANGED <<subscription, addon_instances>>
       ELSE IF existing # 0
               /\ addon_instances[existing].quantity + quantity > PlanAddons[addon].max_quantity
       THEN /\ last' = Call("add_addon", 1, addon, "400")
            /\ customization' = get_object
            /\ UNCHANGED <<subscription, addon_instances>>
       ELSE /\ existing = 0 => Len(addon_instances) < MaxAddonInstances
            /\ addon_instances' =
                 IF existing # 0
                 THEN [addon_instances EXCEPT
                           ![existing].quantity = addon_instances[existing].quantity + quantity]
                 ELSE Append(addon_instances, [addon |-> addon, quantity |-> quantity,
                                               is_active |-> TRUE])
            /\ customization' = calculate_totals(subscription, addon_instances')
            /\ last' = Call("add_addon", 1, addon, "200")
            /\ UNCHANGED subscription
    /\ UNCHANGED notPlan

\* UserPlanCustomizationViewSet.remove_addon: an active row of the customization is
\* switched off and saved, which recalculates the totals; anything else is 404
remove_addon(addon_instance_id) ==
    /\ IF subscription = 0
       THEN /\ last' = Call("remove_addon", 1, addon_instance_id, "404")
            /\ UNCHANGED planVars
       ELSE IF ~(/\ addon_instance_id \in DOMAIN addon_instances
                 /\ addon_instances[addon_instance_id].is_active)
       THEN /\ last' = Call("remove_addon", 1, addon_instance_id, "404")
            /\ customization' = get_object
            /\ UNCHANGED <<subscription, addon_instances>>
       ELSE /\ addon_instances' = [addon_instances EXCEPT ![addon_instance_id].is_active = FALSE]
            /\ customization' = calculate_totals(subscription, addon_instances')
            /\ last' = Call("remove_addon", 1, addon_instance_id, "200")
            /\ UNCHANGED subscription
    /\ UNCHANGED notPlan

\* UserSubscriptionViewSet.upgrade: the subscription is created with, or moved to, the
\* active plan of the requested type; nothing else is written
upgrade(plan_type) ==
    /\ IF \E id \in DOMAIN SubscriptionPlans : SubscriptionPlans[id].plan_type = plan_type
       THEN /\ subscription' = CHOOSE id \in DOMAIN SubscriptionPlans :
                                   SubscriptionPlans[id].plan_type = plan_type
            /\ last' = Call("upgrade", 1, subscription', "200")
       ELSE /\ last' = Call("upgrade", 1, 0, "400")
            /\ UNCHANGED subscription
    /\ UNCHANGED <<customization, addon_instances>>
    /\ UNCHANGED notPlan

\* the add-on lists a customization request carries
AddonsData ==
    {<< >>}
    \cup {<<[addon_id |-> a, quantity |-> q]>> : a \in DOMAIN PlanAddons, q \in AddonQuantities}
    \cup {<<[addon_id |-> 1, quantity |-> 1], [addon_id |-> 2, quantity |-> 1]>>}

CustomizePlan ==
    /\ impl = "models"
    /\ \E base_plan_id \in DOMAIN SubscriptionPlans, addons_data \in AddonsData :
        customize_plan(base_plan_id, addons_data)

AddAddon ==
    /\ impl = "models"
    /\ \E addon \in DOMAIN PlanAddons, quantity \in AddonQuantities : add_addon(addon, quantity)

RemoveAddon ==
    /\ impl = "models"
    /\ \E addon_instance_id \in 1..MaxAddonInstances : remove_addon(addon_instance_id)

Upgrade ==
    /\ impl = "models"
    /\ \E plan_type \in {"free", "premium", "gold"} : upgrade(plan_type)

NextPlan ==
    \/ CustomizePlan
    \/ AddAddon
    \/ RemoveAddon
    \/ Upgrade

SpecPlan == Init /\ [][NextPlan]_vars

\* the monthly cost the plan and the rows stand for: the plan's price plus price x
\* quantity of the active monthly add-ons and a twelfth of it for the active yearly ones
RECURSIVE AddonCost(_)
AddonCost(rows) ==
    IF rows = << >> THEN 0
    ELSE (IF ~Head(rows).is_active THEN 0
          ELSE IF PlanAddons[Head(rows).addon].billing_cycle = "monthly"
          THEN PlanAddons[Head(rows).addon].price * Head(rows).quantity
          ELSE IF PlanAddons[Head(rows).addon].billing_cycle = "yearly"
          THEN (PlanAddons[Head(rows).addon].price * Head(rows).quantity) \div 12
          ELSE 0)
         + AddonCost(Tail(rows))

RECURSIVE AddonCredits(_)
AddonCredits(rows) ==
    IF rows = << >> THEN 0
    ELSE (IF Head(rows).is_active
          THEN PlanAddons[Head(rows).addon].credits_amount * Head(rows).quantity ELSE 0)
         + AddonCredits(Tail(rows))

\* C17: the stored monthly cost of the customization is the current plan's price plus the
\* monthly share of the active add-ons, and the stored credit limit is the plan's limit
\* plus value x quantity of the active add-ons, after every operation
C17_StoredTotalsMatchPlanAndAddons ==
    customization # << >>
    => /\ customization.total_monthly_cost
            = SubscriptionPlans[subscription].price + AddonCost(addon_instances)
       /\ customization.total_ai_credits
            = SubscriptionPlans[subscription].ai_credits_per_month
              + AddonCredits(addon_instances)

(***************************************************************************)
(* Group expenses: models.py SocialGroup, create_group_expense;            *)
(* views.py SocialGroupViewSet.add_expense                                 *)
(***************************************************************************)
MaxGroupTx == 2

ExpenseAmounts == {10, 30}
ParticipantCounts == {0, 2}

\* the tables the ledger shares with the groups, and the rest
groupFrame ==
    <<today, impl, otx, ologs, entities, investVars, planVars, relationships, membership,
      moreVars>>

\* the types json.dumps encodes without an encoder class, which the JSONField
\* transaction_data does not name
JsonTypes == {"str", "int", "float", "bool", "list", "dict", "NoneType"}

\* SocialGroupSerializer.create: the owner is the caller, the statistics start at their
\* default
create_group(uid) ==
    /\ Len(groups) < 1
    /\ groups' = Append(groups, [owner |-> uid, total_expenses |-> 0, member_count |-> 0])
    /\ last' = Call("create_group", uid, Len(groups) + 1, "201")
    /\ UNCHANGED <<accounts, transactions, groupFrame>>

GroupExpense(uid, g, amount) ==
    [user |-> uid,
     transaction_type |-> "group_expense",
     status |-> "active",
     amount |-> amount,
     date |-> today,
     primary_entity |-> 0,
     transaction_data |-> [group_id |-> IdString(g), split_method |-> "equal",
                           creator_paid |-> TRUE]]

\* create_group_expense with split_method 'equal': the share is amount / len(participants),
\* which raises for no participant before anything is stored; then the row is created
\* active and the amount is added to the group's total
create_group_expense(uid, g, amount, participants) ==
    /\ g \in DOMAIN groups
    /\ IF participants = 0
       THEN /\ last' = Call("create_group_expense", uid, 0, "ZeroDivisionError")
            /\ UNCHANGED <<transactions, groups>>
       ELSE /\ Len(transactions) < MaxGroupTx
            /\ transactions' = Append(transactions, GroupExpense(uid, g, amount))
            /\ groups' = [groups EXCEPT ![g].total_expenses = @ + amount]
            /\ last' = Call("create_group_expense", uid, Len(transactions) + 1, "ok")
    /\ UNCHANGED <<accounts, groupFrame>>

\* SocialGroupViewSet.add_expense: the group must be one the caller owns (get_queryset),
\* the description and the amount are required; the row is created pending with the raw
\* group.id in transaction_data, which the JSON field cannot encode: the TypeError leaves
\* no row; the group's total is never written
add_expense(uid, g, amount) ==
    /\ g \in DOMAIN groups
    /\ IF groups[g].owner # uid
       THEN /\ last' = Call("add_expense", uid, 0, "404")
            /\ UNCHANGED transactions
       ELSE IF amount = 0
       THEN /\ last' = Call("add_expense", uid, 0, "400")
            /\ UNCHANGED transactions
       ELSE IF IdUUID(g).kind \notin JsonTypes
       THEN /\ last' = Call("add_expense", uid, 0, "500")
            /\ UNCHANGED transactions
       ELSE /\ Len(transactions) < MaxGroupTx
            /\ transactions' = Append(transactions,
                                      [GroupExpense(uid, g, amount) EXCEPT
                                          !.status = "pending",
                                          !.transaction_data =
                                              [group_id |-> IdUUID(g), split_type |-> "equal"]])
            /\ last' = Call("add_expense", uid, Len(transactions) + 1, "200")
    /\ UNCHANGED <<accounts, groups, groupFrame>>

CreateGroup ==
    /\ impl = "models"
    /\ create_group(1)

CreateGroupExpense ==
    /\ impl = "models"
    /\ \E amount \in ExpenseAmounts, participants \in ParticipantCounts :
        create_group_expense(1, 1, amount, participants)

AddExpense ==
    /\ impl = "models"
    /\ \E uid \in {1, 2}, amount \in ExpenseAmounts \cup {0} : add_expense(uid, 1, amount)

NextGroup ==
    \/ CreateGroup
    \/ CreateGroupExpense
    \/ AddExpense
    \/ BulkUpdate

SpecGroup == Init /\ [][NextGroup]_vars

\* the sum of the amounts of the group-expense rows tagged with the group's id that are
\* not cancelled
RECURSIVE GroupExpenseSum(_, _)
GroupExpenseSum(rows, g) ==
    IF rows = << >> THEN 0
    ELSE (IF /\ Head(rows).transaction_type = "group_expense"
             /\ Head(rows).transaction_data.group_id.id = g
             /\ Head(rows).status # "cancelled"
          THEN Head(rows).amount ELSE 0)
         + GroupExpenseSum(Tail(rows), g)

accessFrame ==
    <<transactions, today, impl, otx, ologs, entities, investVars, planVars, groups, membership,
      moreVars>>

\* EntitySerializer.create for an account of the caller that is not joint
PlainAccount(uid) ==
    [user |-> uid,
     entity_type |-> "account",
     data |-> [balance |-> 0],
     initial_balance |-> 0]

create_account(id, uid) ==
    /\ id \notin DOMAIN accounts
    /\ accounts' = Put(accounts, id, PlainAccount(uid))
    /\ last' = Call("create_account", uid, 0, "201")
    /\ UNCHANGED <<accessFrame, relationships>>

\* UserRelationshipSerializer: a party of the row creates it or writes its status and
\* its access flags
save_relationship(user, related_user, status, can_view, can_manage) ==
    /\ user # related_user
    /\ relationships' =
         Put(relationships, <<user, related_user>>,
             [Get(relationships, <<user, related_user>>,
                  [NewRelationship EXCEPT !.is_mutual = FALSE]) EXCEPT
                 !.status = status,
                 !.can_view_financial_data = can_view,
                 !.can_manage_joint_accounts = can_manage])
    /\ last' = Call("save_relationship", user, 0, "200")
    /\ UNCHANGED <<accessFrame, accounts>>

\* User.can_access_account: the account's user, or for a joint account a joint owner
\* or the primary owner
can_access_account(uid, account) ==
    IF account.user = uid THEN TRUE
    ELSE IF Get(account.data, "is_joint", FALSE) THEN is_account_owner(account, uid)
    ELSE FALSE

\* User.get_accounts: the user's own accounts and the accounts listed by the accepted
\* relationships of the user that may manage joint accounts
get_user_accounts(uid) ==
    LET own_accounts == {a \in DOMAIN accounts :
                            /\ accounts[a].user = uid
                            /\ accounts[a].entity_type = "account"}
        managing == {pair \in DOMAIN relationships :
                        /\ pair[1] = uid
                        /\ relationships[pair].status = "accepted"
                        /\ relationships[pair].can_manage_joint_accounts}
        joint_accounts == {a \in DOMAIN accounts :
                              /\ accounts[a].entity_type = "account"
                              /\ \E pair \in managing :
                                    Contains(relationships[pair].joint_accounts, IdString(a))}
    IN  own_accounts \cup joint_accounts

\* the permission test of add_joint_transaction: not joint raises ValueError, a user
\* outside the owners raises PermissionError
may_add_joint_transaction(uid, account) ==
    /\ Get(account.data, "is_joint", FALSE)
    /\ is_account_owner(account, uid)

\* the owner test of approve_joint_transaction
may_approve_on(uid, account) == is_account_owner(account, uid)

CreateAccount ==
    /\ impl = "models"
    /\ \E id \in AccountIds, uid \in Users : create_account(id, uid)

RelationshipPairs == {<<2, 1>>, <<1, 3>>}

SaveRelationship ==
    /\ impl = "models"
    /\ \E pair \in RelationshipPairs, status \in {"accepted", "pending"},
          can_view \in BOOLEAN, can_manage \in BOOLEAN :
        save_relationship(pair[1], pair[2], status, can_view, can_manage)

CanAccessAccount ==
    /\ impl = "models"
    /\ \E uid \in Users, a \in DOMAIN accounts :
        /\ last' = Call("can_access_account", uid, 0,
                        IF can_access_account(uid, accounts[a]) THEN "True" ELSE "False")
        /\ UNCHANGED <<accessFrame, accounts, relationships>>

GetAccounts ==
    /\ impl = "models"
    /\ \E uid \in Users :
        /\ last' = Call("get_accounts", uid, Cardinality(get_user_accounts(uid)), "ok")
        /\ UNCHANGED <<accessFrame, accounts, relationships>>

NextAccess ==
    \/ CreateJointAccount
    \/ CreateAccount
    \/ SaveRelationship
    \/ CanAccessAccount
    \/ GetAccounts
    \/ AddJointTransaction
    \/ ApproveJointTransaction

SpecAccess == Init /\ [][NextAccess]_vars

\* the rule of access: the owner, or a user to whom an accepted relationship of the
\* owner grants the capability, or a listed joint owner of a joint account
MayAccess(uid, account) ==
    \/ account.user = uid
    \/ /\ <<account.user, uid>> \in DOMAIN relationships
       /\ relationships[<<account.user, uid>>].status = "accepted"
       /\ relationships[<<account.user, uid>>].can_view_financial_data
    \/ /\ Get(account.data, "is_joint", FALSE)
       /\ Contains(Get(account.data, "joint_owners", << >>), uid)

\* C19: a user may access an account exactly when the rule of access allows it, and
\* can_access_account, get_accounts and the owner checks of add_joint_transaction and
\* approve_joint_transaction give the same answer in the same state
C19_AccessAnswersAgree ==
    \A uid \in Users, a \in DOMAIN accounts :
        /\ can_access_account(uid, accounts[a]) <=> MayAccess(uid, accounts[a])
        /\ (a \in get_user_accounts(uid)) <=> can_access_account(uid, accounts[a])
        /\ may_add_joint_transaction(uid, accounts[a]) <=> can_access_account(uid, accounts[a])
        /\ may_approve_on(uid, accounts[a]) <=> can_access_account(uid, accounts[a])

(***************************************************************************)
(* Group membership: models.py GroupMembership.can_perform_action          *)
(***************************************************************************)
MEMBER_ROLES == {"owner", "admin", "member", "child", "guest"}

\* the capabilities of the member_config structure
MemberActions ==
    {"can_add_expenses", "can_edit_expenses", "can_invite_members", "can_view_all_transactions"}

\* the permissions payloads: any capability may be absent, granted or refused
PermissionPayloads ==
    UNION {[granted -> BOOLEAN] : granted \in SUBSET MemberActions}

\* member_config: the default dict() or one that carries a permissions payload
MemberConfigs == {<< >>} \cup {[permissions |-> payload] : payload \in PermissionPayloads}

\* the tables no membership operation writes
notMembership == <<baseVars, entities, investVars, planVars, groups, relationships, moreVars>>

\* GroupMembershipSerializer: role and member_config are writable
save_membership(role, member_config) ==
    /\ membership' = [role |-> role, member_config |-> member_config]
    /\ last' = Call("save_membership", NoUser, 0, "200")
    /\ UNCHANGED notMembership

admin_permissions == {"can_add_expenses", "can_edit_expenses", "can_view_all_transactions"}

\* GroupMembership.can_perform_action
can_perform_action(self, action) ==
    LET permissions == Get(self.member_config, "permissions", << >>)
    IN  IF self.role = "owner" THEN TRUE
        ELSE IF self.role = "admin"
        THEN action \in admin_permissions \/ Get(permissions, action, FALSE)
        ELSE Get(permissions, action, FALSE)

\* a call of can_perform_action on the stored row, with the answer it returns
perform_action(action) ==
    /\ membership # << >>
    /\ last' = Call("can_perform_action", NoUser, 0,
                    IF can_perform_action(membership, action) THEN "True" ELSE "False")
    /\ UNCHANGED <<notMembership, membership>>

SaveMembership ==
    /\ impl = "models"
    /\ \E role \in MEMBER_ROLES, member_config \in MemberConfigs :
        save_membership(role, member_config)

CanPerformAction ==
    /\ impl = "models"
    /\ \E action \in MemberActions : perform_action(action)

NextMembership ==
    \/ SaveMembership
    \/ CanPerformAction

SpecMembership == Init /\ [][NextMembership]_vars

\* the override payload of the row grants the action
OverrideGrants(self, action) ==
    /\ "permissions" \in DOMAIN self.member_config
    /\ action \in DOMAIN self.member_config.permissions
    /\ self.member_config.permissions[action]

\* C20: can_perform_action answers true for every action when the role is owner or
\* admin, whatever the override payload, and for any other role exactly when the
\* override payload grants the action
C20_OwnerAndAdminMayDoAll ==
    [][\A action \in MemberActions :
          perform_action(action)
          => ((last'.result = "True")
              <=> (membership.role \in {"owner", "admin"} \/ OverrideGrants(membership, action)))
      ]_vars

\* C21: one execution of a template is atomic: a call that succeeds leaves the new
\* event and the advanced schedule, a call that fails at any step, the update of the
\* schedule included, leaves no new event and the template as it was
C21_ExecuteIsAtomic ==
    [][/\ \A t \in 1..Len(transactions) :
             (last'.op = "execute_recurring" /\ last'.tx = t /\ last'.result # "ok")
             => transactions' = transactions
       /\ \A t \in 1..Len(otx) :
             (last'.op = "execute_recurring_transaction" /\ last'.tx = t)
             => IF last'.result = "ok"
                THEN /\ Len(otx') = Len(otx) + 1
                     /\ otx'[Len(otx')].source_template_id = t
                     /\ otx'[t] # otx[t]
                ELSE otx' = otx]_vars

(***************************************************************************)
(* Concurrent requests on one joint account: models.py add_joint_transaction*)
(* and approve_joint_transaction read the balance from the Entity object   *)
(* the request loaded and write it back with Entity.set_data_value, which  *)
(* saves the whole data payload of that object                             *)
(***************************************************************************)
MaxConcTx == 2

\* the tables no request in flight writes
notProc ==
    <<today, impl, otx, ologs, entities, investVars, planVars, groups, relationships,
      membership, lateVars>>

Idle(p) == pc[p] = "idle"

Finish(p) ==
    /\ pc' = [pc EXCEPT ![p] = "idle"]
    /\ local' = [local EXCEPT ![p] = << >>]

\* the request loads the account row and passes the checks of add_joint_transaction
add_joint_read(p, a, uid, amount, transaction_type) ==
    /\ Idle(p)
    /\ a \in DOMAIN accounts
    /\ Get(accounts[a].data, "is_joint", FALSE)
    /\ is_account_owner(accounts[a], uid)
    /\ Len(transactions) + Cardinality({q \in Procs : pc[q] = "add_joint_write"}) < MaxConcTx
    /\ pc' = [pc EXCEPT ![p] = "add_joint_write"]
    /\ local' = [local EXCEPT ![p] = [a |-> a, account |-> accounts[a], uid |-> uid,
                                      amount |-> amount,
                                      transaction_type |-> transaction_type]]
    /\ UNCHANGED <<accounts, transactions, last, notProc>>

\* the row is created and, when no approval is needed, the balance computed from the
\* loaded object is saved with the rest of its data
add_joint_write(p) ==
    /\ pc[p] = "add_joint_write"
    /\ LET a == local[p].a
           account == local[p].account
           amount == local[p].amount
           transaction_type == local[p].transaction_type
       IN  /\ transactions' =
                Append(transactions,
                       JointTransaction(a, account, local[p].uid, amount, transaction_type))
           /\ accounts' =
                IF ~needs_approval(account, amount)
                THEN [accounts EXCEPT ![a] =
                        set_data_value(account, "balance",
                                       new_balance(balance(account), transaction_type, amount))]
                ELSE accounts
    /\ last' = Call("add_joint_transaction", NoUser, 0, "ok")
    /\ Finish(p)
    /\ UNCHANGED notProc

\* the request loads the transaction and its account and passes the checks of
\* approve_joint_transaction
approve_joint_read(p, t, uid) ==
    /\ Idle(p)
    /\ t \in 1..Len(transactions)
    /\ may_approve(transactions[t], accounts[transactions[t].primary_entity], uid)
    /\ pc' = [pc EXCEPT ![p] = "approve_joint_write"]
    /\ local' = [local EXCEPT ![p] = [t |-> t, transaction |-> transactions[t],
                                      a |-> transactions[t].primary_entity,
                                      account |-> accounts[transactions[t].primary_entity],
                                      uid |-> uid]]
    /\ UNCHANGED <<accounts, transactions, last, notProc>>

\* the approval is appended to the loaded transaction; with a quorum the balance
\* computed from the loaded account is saved, then the loaded transaction is saved
approve_joint_write(p) ==
    /\ pc[p] = "approve_joint_write"
    /\ LET t == local[p].t
           a == local[p].a
           transaction == local[p].transaction
           account == local[p].account
           td == transaction.transaction_data
           approved_by == Append(Get(td, "approved_by", << >>), local[p].uid)
           td1 == Put(td, "approved_by", approved_by)
           enough == enough_approvals(approved_by, Get(td, "initiated_by", NoUser))
       IN  /\ transactions' =
                [transactions EXCEPT ![t] =
                    IF enough
                    THEN [transaction EXCEPT
                            !.status = "active",
                            !.transaction_data = Put(td1, "approval_status", "approved")]
                    ELSE [transaction EXCEPT !.transaction_data = td1]]
           /\ accounts' =
                IF enough
                THEN [accounts EXCEPT ![a] =
                        set_data_value(account, "balance",
                                       new_balance(balance(account),
                                                   transaction.transaction_type,
                                                   transaction.amount))]
                ELSE accounts
    /\ last' = Call("approve_joint_transaction", local[p].uid, local[p].t, "True")
    /\ Finish(p)
    /\ UNCHANGED notProc

AddJointRead ==
    /\ impl = "models"
    /\ \E p \in Procs, a \in AccountIds, uid \in {1, 2}, r \in JointRequests :
        add_joint_read(p, a, uid, r[1], r[2])

AddJointWrite ==
    /\ impl = "models"
    /\ \E p \in Procs : add_joint_write(p)

ApproveJointRead ==
    /\ impl = "models"
    /\ \E p \in Procs, t \in 1..Len(transactions), uid \in {1, 2} : approve_joint_read(p, t, uid)

ApproveJointWrite ==
    /\ impl = "models"
    /\ \E p \in Procs : approve_joint_write(p)

NextConcurrent ==
    \/ CreateJointAccount
    \/ AddJointRead
    \/ AddJointWrite
    \/ ApproveJointRead
    \/ ApproveJointWrite

SpecConcurrent == Init /\ [][NextConcurrent]_vars

\* C22: when the concurrent requests on an account have all finished, its balance
\* reflects every applied amount: the initial balance plus the signed amounts of its
\* active events, whatever the interleaving of the reads and the writes was
C22_NoLostUpdate ==
    (\A p \in Procs : Idle(p))
    => \A a \in DOMAIN accounts : balance(accounts[a]) = ReplayBalance(a)

(***************************************************************************)
(* RecurringTransaction (models_backup_20250805_044632.py) and the         *)
(* execute_now and batch_execute endpoints of RecurringTransactionViewSet  *)
(***************************************************************************)
\* most RecurringTransaction rows that may exist
MaxRecurring == 2
\* most Transaction rows the recurring transactions may create
MaxBatchTx == 3
\* last day ordinal the clock of the batch runs may reach
MaxBatchDay == 14

\* the tables no recurring-transaction endpoint writes
batchFrame ==
    <<accounts, transactions, impl, otx, ologs, entities, investVars, planVars, groups,
      relationships, membership, procVars, profile, usage, memberships>>

\* the model fields of RecurringTransaction
RecurringTransactionFields ==
    {"id", "user", "account", "description", "amount", "transaction_type", "category",
     "frequency", "custom_frequency_days", "start_date", "end_date", "next_execution_date",
     "execution_mode", "auto_categorize", "status", "total_executions", "max_executions",
     "last_execution_date", "allow_amount_variance", "variance_percentage",
     "notify_before_days", "notify_on_execution", "notify_on_failure", "notes", "tags",
     "created_at", "updated_at"}

BatchFrequencies == {"weekly", "monthly"}
\* max_executions of a new row; 0 is the null of the field
RecurringLimits == {0, 1}

\* a new row: status 'active', total_executions 0; end_date and last_execution_date
\* are null, the row has no such key
NewRecurringTransaction(frequency, max_executions, start_date) ==
    [frequency |-> frequency, start_date |-> start_date,
     next_execution_date |-> start_date, status |-> "active", total_executions |-> 0,
     max_executions |-> max_executions]

calculate_next_execution_date(self) ==
    LET base_date == IF ~Has(self, "last_execution_date") THEN self.start_date
                     ELSE self.last_execution_date
    IN  IF self.frequency = "daily" THEN base_date + 1
        ELSE IF self.frequency = "weekly" THEN base_date + 7
        ELSE IF self.frequency = "biweekly" THEN base_date + 14
        ELSE IF self.frequency = "monthly"
             THEN ToOrdinal(AddMonths(FromOrdinal(base_date), 1))
        ELSE base_date + 30

\* execute_transaction: the saved row, whether a Transaction was created, and the
\* value returned, which is always a (transaction, message) pair
execute_transaction(self) ==
    IF self.status # "active"
    THEN [row |-> self, created |-> FALSE, value |-> [type |-> "tuple", items |-> <<None, "not active">>]]
    ELSE IF self.max_executions # 0 /\ self.total_executions >= self.max_executions
    THEN [row |-> [self EXCEPT !.status = "completed"], created |-> FALSE,
          value |-> [type |-> "tuple", items |-> <<None, "Maximum executions reached">>]]
    ELSE LET counted == Put([self EXCEPT !.total_executions = @ + 1],
                            "last_execution_date", today)
             moved == [counted EXCEPT
                         !.next_execution_date = calculate_next_execution_date(counted)]
             done == \/ (Has(moved, "end_date") /\ today >= moved.end_date)
                     \/ (moved.max_executions # 0
                         /\ moved.total_executions >= moved.max_executions)
         IN  [row |-> IF done THEN [moved EXCEPT !.status = "completed"] ELSE moved,
              created |-> TRUE,
              value |-> [type |-> "tuple",
                         items |-> <<"transaction", "Transaction executed successfully">>]]

\* getattr on a value returned by execute_transaction: a tuple has neither status, id
\* nor error_message
HasAttribute(value, name) == value.type # "tuple" /\ name \in DOMAIN value

\* the Transaction row execute_transaction creates for recurring transaction t
RecurringEvent(t) == [recurring_id |-> t, date |-> today]

\* the rows of the table after execute_transaction ran on row t
AfterExecution(rows, events, t) ==
    LET execution == execute_transaction(rows[t])
    IN  [rows |-> [rows EXCEPT ![t] = execution.row],
         events |-> IF execution.created THEN Append(events, RecurringEvent(t)) ELSE events,
         value |-> execution.value]

\* the condition under which batch_execute executes a row of its queryset
IsDue(rt) ==
    /\ rt.next_execution_date <= today
    /\ (~Has(rt, "end_date") \/ today <= rt.end_date)
    /\ (rt.max_executions = 0 \/ rt.total_executions < rt.max_executions)

\* the loop of batch_execute over the rows ids (newest first): every row runs in its
\* own try block; reading execution.status of the returned value decides the result
RECURSIVE batch_loop(_, _, _, _)
batch_loop(rows, events, ids, results) ==
    IF ids = << >> THEN [rows |-> rows, events |-> events, results |-> results]
    ELSE LET t == Head(ids)
             after == AfterExecution(rows, events, t)
             success == /\ HasAttribute(after.value, "status")
                        /\ after.value.status = "completed"
         IN  IF IsDue(rows[t])
             THEN batch_loop(after.rows, after.events, Tail(ids), Put(results, t, success))
             ELSE batch_loop(rows, events, Tail(ids), results)

\* the ids 1..n in the order of the queryset (-created_at)
NewestFirst(n) == [i \in 1..n |-> n + 1 - i]

create_recurring(frequency, max_executions) ==
    /\ Len(recurring) < MaxRecurring
    /\ recurring' = Append(recurring, NewRecurringTransaction(frequency, max_executions, today))
    /\ last' = Call("create_recurring", NoUser, Len(recurring) + 1, "ok")
    /\ UNCHANGED <<today, rtx, batchFrame>>

\* POST recurring-transactions/{id}/execute_now/
execute_now(t) ==
    /\ Len(rtx) < MaxBatchTx
    /\ LET after == AfterExecution(recurring, rtx, t)
       IN  /\ recurring' = after.rows
           /\ rtx' = after.events
           /\ last' = Call("execute_now", NoUser, t,
                           IF HasAttribute(after.value, "status") THEN "200" ELSE "500")
    /\ UNCHANGED <<today, batchFrame>>

\* POST recurring-transactions/batch_execute/: the queryset is filtered on is_active
\* before the loop starts
batch_execute ==
    /\ Len(rtx) + Len(recurring) <= MaxBatchTx
    /\ IF "is_active" \notin RecurringTransactionFields
       THEN /\ last' = Call("batch_execute", NoUser, << >>, "FieldError")
            /\ UNCHANGED <<recurring, rtx>>
       ELSE LET ran == batch_loop(recurring, rtx, NewestFirst(Len(recurring)), << >>)
            IN  /\ recurring' = ran.rows
                /\ rtx' = ran.events
                /\ last' = Call("batch_execute", NoUser, ran.results, "200")
    /\ UNCHANGED <<today, batchFrame>>

CreateRecurring ==
    /\ impl = "models"
    /\ \E frequency \in BatchFrequencies, max_executions \in RecurringLimits :
        create_recurring(frequency, max_executions)

ExecuteNow ==
    /\ impl = "models"
    /\ \E t \in 1..Len(recurring) : execute_now(t)

BatchExecute ==
    /\ impl = "models"
    /\ batch_execute

BatchTick ==
    /\ today + 7 <= MaxBatchDay
    /\ today' = today + 7
    /\ last' = Call("tick", NoUser, 0, "ok")
    /\ UNCHANGED <<recurring, rtx, batchFrame>>

NextBatch ==
    \/ CreateRecurring
    \/ ExecuteNow
    \/ BatchExecute
    \/ BatchTick

SpecBatch == Init /\ [][NextBatch]_vars

\* the Transaction rows recurring transaction t created
EventsOf(events, t) == {e \in 1..Len(events) : events[e].recurring_id = t}

\* C23: a batch execution reports every due recurring transaction; one it reports as
\* executed has got its event and its advanced schedule, one it reports as failed is
\* left as it was before the batch, whatever happened to the others
C23_BatchIsolatesFailures ==
    [][last'.op = "batch_execute"
       => \A t \in 1..Len(recurring) :
            (recurring[t].status = "active" /\ IsDue(recurring[t]))
            => /\ t \in DOMAIN last'.tx
               /\ IF last'.tx[t]
                  THEN /\ Cardinality(EventsOf(rtx', t)) = Cardinality(EventsOf(rtx, t)) + 1
                       /\ recurring'[t].next_execution_date > recurring[t].next_execution_date
                  ELSE /\ recurring'[t] = recurring[t]
                       /\ EventsOf(rtx', t) = EventsOf(rtx, t)]_vars

(***************************************************************************)
(* UserProfile.get_config_value / set_config_value / consume_credits       *)
(* A dotted path is the pair of its two keys.                              *)
(***************************************************************************)
\* the tables no profile operation writes
profileFrame ==
    <<baseVars, entities, investVars, planVars, groups, relationships, membership,
      batchVars, usage, memberships>>

\* get_config_value(path, default) on a config payload
get_config_value(config, path, default) ==
    IF path[1] \in DOMAIN config /\ path[2] \in DOMAIN config[path[1]]
    THEN config[path[1]][path[2]]
    ELSE default

\* the config payload set_config_value(path, value) saves
config_with(config, path, value) ==
    Put(config, path[1], Put(Get(config, path[1], << >>), path[2], value))

set_config_value(self, path, value) == [self EXCEPT !.config = config_with(self.config, path, value)]

\* a consume_credits that subtracts without looking at what is left
consume_credits_unguarded(self, amount) ==
    [row |-> [self EXCEPT !.ai_credits_remaining = @ - amount], value |-> TRUE]

\* consume_credits(amount): the saved row and the value returned
consume_credits(self, amount) ==
    IF self.ai_credits_remaining >= amount
    THEN LET path == <<"usage", "ai_credits_used_this_month">>
             spent == [self EXCEPT !.ai_credits_remaining = @ - amount]
         IN  [row |-> set_config_value(spent, path,
                                       get_config_value(spent.config, path, 0) + amount),
              value |-> TRUE]
    ELSE [row |-> self, value |-> FALSE]

\* the config values a request may set, by path
ConfigWrites ==
    {<<<<"usage", "ai_credits_remaining">>, 40>>,
     <<<<"usage", "ai_credits_remaining">>, 100>>,
     <<<<"subscription", "plan_id">>, "free">>,
     <<<<"subscription", "plan_id">>, "premium">>,
     <<<<"subscription", "status">>, "trial">>,
     <<<<"subscription", "status">>, "active">>}
CreditAmounts == {30, 60}

SetConfigValue ==
    /\ impl = "models"
    /\ \E w \in ConfigWrites :
        /\ profile' = set_config_value(profile, w[1], w[2])
        /\ last' = Call("set_config_value", NoUser, 0, "ok")
    /\ UNCHANGED <<procVars, profileFrame>>

ConsumeCredits ==
    /\ impl = "models"
    /\ \E amount \in CreditAmounts :
        /\ profile' = consume_credits(profile, amount).row
        /\ last' = Call("consume_credits", NoUser, amount,
                        IF consume_credits(profile, amount).value THEN "True" ELSE "False")
    /\ UNCHANGED <<procVars, profileFrame>>

NextProfile ==
    \/ SetConfigValue
    \/ ConsumeCredits

SpecProfile == Init /\ [][NextProfile]_vars

\* the config path each denormalized field of the profile mirrors
HotFields ==
    {<<"ai_credits_remaining", <<"usage", "ai_credits_remaining">>>>,
     <<"current_plan", <<"subscription", "plan_id">>>>,
     <<"subscription_status", <<"subscription", "status">>>>}

\* C24: every denormalized field of the profile equals the value the config payload
\* holds under the path it mirrors, whenever the payload holds one
C24_HotFieldsMatchConfig ==
    \A h \in HotFields :
        (h[2][1] \in DOMAIN profile.config /\ h[2][2] \in DOMAIN profile.config[h[2][1]])
        => profile[h[1]] = profile.config[h[2][1]][h[2][2]]

(***************************************************************************)
(* Approvals on the joint-account ledger: accounts, joint transactions and *)
(* sequences of approve_joint_transaction calls                            *)
(***************************************************************************)
AddJointTransactions ==
    /\ impl = "models"
    /\ UNCHANGED <<impl, otx, ologs, extVars>>
    /\ \E a \in AccountIds, uid \in Users, r \in JointRequests :
        add_joint_transaction(a, uid, r[1], r[2], MaxConcTx)

NextApprove ==
    \/ CreateJointAccount
    \/ AddJointTransactions
    \/ ApproveJointTransaction

SpecApprove == Init /\ [][NextApprove]_vars

NoDuplicates(seq) == \A i, j \in 1..Len(seq) : seq[i] = seq[j] => i = j

\* C25: an approval of a transaction that is already active returns False and changes
\* neither the balance, the status nor approved_by; no user id is twice in
\* approved_by; and after every approval the balance of each account holds the
\* amount of each of its active transactions exactly once
C25_AppliedAtMostOnce ==
    [][\A t \in 1..Len(transactions), uid \in Users :
          ApproveStep(t, uid)
          => /\ transactions[t].status = "active"
                => /\ last'.result = "False"
                   /\ accounts' = accounts
                   /\ transactions' = transactions
             /\ NoDuplicates(approved_by_of(transactions'[t]))
             /\ \A a \in DOMAIN accounts : balance(accounts'[a]) = ReplayBalance(a)']_vars

\* an approval was just refused on a transaction that an earlier approval had made
\* active, its amount being in the balance once
C25_Witness ==
    /\ last.op = "approve_joint_transaction"
    /\ last.result = "False"
    /\ last.tx \in 1..Len(transactions)
    /\ transactions[last.tx].status = "active"
    /\ Get(transactions[last.tx].transaction_data, "needs_approval", FALSE)
    /\ last.user = initiated_by_of(transactions[last.tx])
    /\ ~Contains(approved_by_of(transactions[last.tx]), last.user)
    /\ balance(accounts[transactions[last.tx].primary_entity]) =
         ReplayBalance(transactions[last.tx].primary_entity)

(***************************************************************************)
(* AIService: check_user_credits, the provider call and consume_credits of *)
(* two AI operations of one user running together.  user.subscription is   *)
(* loaded at the first access of a request and cached on its user object.  *)
(***************************************************************************)
\* ai_credits_per_month of the free plan the subscription is created with
TrialCredits == 6

\* the tables no AI operation writes
aiFrame ==
    <<baseVars, entities, investVars, planVars, groups, relationships, membership,
      batchVars, profile, memberships>>

\* self.credit_costs of the operations that check and consume
credit_costs == [categorization |-> 1, invoice_generation |-> 5]

\* SubscriptionViewSet.current: the subscription row is created on first use
current_subscription ==
    /\ usage = << >>
    /\ usage' = [ai_credits_remaining |-> TrialCredits, ai_credits_used_this_month |-> 0]
    /\ last' = Call("current", NoUser, 0, "ok")
    /\ UNCHANGED <<procVars, aiFrame>>

\* check_user_credits on the subscription the request loads
check_user_credits(sub, operation_type) ==
    sub.ai_credits_remaining >= credit_costs[operation_type]

\* the operation up to its provider call: without a subscription or without enough
\* credits it returns at once
ai_check(p, operation_type) ==
    /\ Idle(p)
    /\ IF usage = << >>
       THEN /\ last' = Call("ai_operation", p, 0, "No sub found")
            /\ UNCHANGED procVars
       ELSE IF ~check_user_credits(usage, operation_type)
       THEN /\ last' = Call("ai_operation", p, credit_costs[operation_type],
                            "Insufficient usage")
            /\ UNCHANGED procVars
       ELSE /\ pc' = [pc EXCEPT ![p] = "ai_provider"]
            /\ local' = [local EXCEPT ![p] = [subscription |-> usage,
                                              operation_type |-> operation_type]]
            /\ last' = Call("ai_operation", p, credit_costs[operation_type], "checked")
    /\ UNCHANGED <<usage, aiFrame>>

\* AIService.consume_credits on the subscription object of the request: the row
\* saved and the value returned
ai_consume_credits(sub, credits_used) ==
    IF sub.ai_credits_remaining >= credits_used
    THEN [row |-> [sub EXCEPT !.ai_credits_remaining = @ - credits_used,
                                       !.ai_credits_used_this_month = @ + credits_used],
          value |-> TRUE]
    ELSE [row |-> sub, value |-> FALSE]

\* the provider answered: a successful result consumes the credits, a failed one
\* is only logged
ai_result(p, success) ==
    /\ pc[p] = "ai_provider"
    /\ LET credits_used == credit_costs[local[p].operation_type]
           consumed == ai_consume_credits(local[p].subscription, credits_used)
       IN  IF success
           THEN /\ usage' = IF consumed.value THEN consumed.row ELSE usage
                /\ last' = Call("ai_operation", p, credits_used,
                                IF consumed.value THEN "consumed" ELSE "not consumed")
           ELSE /\ usage' = usage
                /\ last' = Call("ai_operation", p, credits_used, "failed")
    /\ Finish(p)
    /\ UNCHANGED aiFrame

CurrentSubscription ==
    /\ impl = "models"
    /\ current_subscription

AiCheck ==
    /\ impl = "models"
    /\ \E p \in Procs, operation_type \in DOMAIN credit_costs : ai_check(p, operation_type)

AiResult ==
    /\ impl = "models"
    /\ \E p \in Procs, success \in BOOLEAN : ai_result(p, success)

NextCredits ==
    \/ CurrentSubscription
    \/ AiCheck
    \/ AiResult
    \/ ConsumeCredits

SpecCredits == Init /\ [][NextCredits]_vars

\* C26: the remaining credits of the profile and of the subscription are never
\* negative, whatever the interleaving of the checks and the consumptions of two AI
\* operations is; a consume_credits(n) with n above the remaining credits returns
\* False and changes nothing
C26_CreditsNeverNegative ==
    [][/\ profile'.ai_credits_remaining >= 0
       /\ usage' # << >> => usage'.ai_credits_remaining >= 0
       /\ \A amount \in CreditAmounts :
            (/\ last'.op = "consume_credits"
             /\ last'.tx = amount
             /\ amount > profile.ai_credits_remaining)
            => last'.result = "False" /\ profile' = profile]_vars

\* a request is about to consume on credits it checked before the other request
\* consumed: what is stored now would not pass its check any more
C26_Witness ==
    /\ last.op = "ai_operation"
    /\ last.result = "consumed"
    /\ \E p \in Procs :
        /\ pc[p] = "ai_provider"
        /\ usage.ai_credits_remaining < credit_costs[local[p].operation_type]
        /\ check_user_credits(local[p].subscription, local[p].operation_type)

(***************************************************************************)
(* Group membership: SocialGroup.add_member / remove_member,               *)
(* create_family_group and the add_member endpoint of SocialGroupViewSet   *)
(***************************************************************************)
\* most SocialGroup rows the membership runs may hold
MaxGroups == 1

\* the tables no membership operation writes
membersFrame ==
    <<accounts, transactions, today, impl, otx, ologs, entities, investVars, planVars,
      membership, procVars, batchVars, profile, usage>>

\* self.members.count(): the rows of the through table that name the group
members_count(rows, g) == Cardinality({m \in DOMAIN rows : m[1] = g})

NewMembership(role) == [role |-> role, is_active |-> TRUE]

\* SocialGroup.add_member: the membership rows and the group row it leaves
add_member(rows, group, g, user, role) ==
    IF <<g, user>> \in DOMAIN rows
    THEN [rows |-> rows, group |-> group]
    ELSE LET created == Put(rows, <<g, user>>, NewMembership(role))
         IN  [rows |-> created,
              group |-> [group EXCEPT !.member_count = members_count(created, g)]]

\* SocialGroup.remove_member: the membership rows, the group row and the value returned
remove_member(rows, group, g, user) ==
    IF <<g, user>> \in DOMAIN rows
    THEN LET deleted == [m \in DOMAIN rows \ {<<g, user>>} |-> rows[m]]
         IN  [rows |-> deleted,
              group |-> [group EXCEPT !.member_count = members_count(deleted, g)],
              value |-> TRUE]
    ELSE [rows |-> rows, group |-> group, value |-> FALSE]

\* the loop of create_family_group over children
RECURSIVE add_children(_, _, _, _)
add_children(rows, group, g, children) ==
    IF children = << >> THEN [rows |-> rows, group |-> group]
    ELSE LET added == add_member(rows, group, g, Head(children), "child")
         IN  add_children(added.rows, added.group, g, Tail(children))

\* UserRelationship.objects.get_or_create(user, related_user, defaults) of
\* create_family_group
family_relationship(rows, user, related_user) ==
    IF <<user, related_user>> \in DOMAIN rows THEN rows
    ELSE Put(rows, <<user, related_user>>,
             [NewRelationship EXCEPT !.can_view_financial_data = TRUE,
                                     !.can_manage_joint_accounts = TRUE])

RECURSIVE family_relationships(_, _, _)
family_relationships(rows, user, related_users) ==
    IF related_users = << >> THEN rows
    ELSE family_relationships(family_relationship(rows, user, Head(related_users)),
                              user, Tail(related_users))

\* create_family_group(parent_user, family_name, children, spouse); spouse is NoUser
\* when none is given
create_family_group(parent_user, spouse, children) ==
    /\ Len(groups) < MaxGroups
    /\ LET g == Len(groups) + 1
           family_group == [owner |-> parent_user, total_expenses |-> 0, member_count |-> 0]
           owned == Put(memberships, <<g, parent_user>>, NewMembership("owner"))
           wed == IF spouse # NoUser THEN add_member(owned, family_group, g, spouse, "admin")
                  ELSE [rows |-> owned, group |-> family_group]
           grown == add_children(wed.rows, wed.group, g, children)
       IN  /\ groups' = Append(groups, grown.group)
           /\ memberships' = grown.rows
           /\ relationships' =
                family_relationships(relationships, parent_user,
                                     (IF spouse # NoUser THEN <<spouse>> ELSE << >>) \o children)
    /\ last' = Call("create_family_group", parent_user, Len(groups) + 1, "ok")
    /\ UNCHANGED membersFrame

\* the groups get_queryset of SocialGroupViewSet shows to a caller
may_see_group(uid, g) ==
    \/ groups[g].owner = uid
    \/ (<<g, uid>> \in DOMAIN memberships /\ memberships[<<g, uid>>].is_active)

\* POST groups/{id}/add_member/
add_member_endpoint(uid, g, user_id, role) ==
    /\ g \in 1..Len(groups)
    /\ IF ~may_see_group(uid, g)
       THEN /\ last' = Call("add_member_endpoint", uid, g, "404")
            /\ UNCHANGED memberships
       ELSE /\ memberships' =
                 IF <<g, user_id>> \notin DOMAIN memberships
                 THEN Put(memberships, <<g, user_id>>, NewMembership(role))
                 ELSE IF ~memberships[<<g, user_id>>].is_active
                 THEN Put(memberships, <<g, user_id>>, NewMembership(role))
                 ELSE memberships
            /\ last' = Call("add_member_endpoint", uid, g, "200")
    /\ UNCHANGED <<groups, relationships, membersFrame>>

CreateFamilyGroup ==
    /\ impl = "models"
    /\ \E spouse \in {NoUser, 2}, children \in {<< >>, <<3>>} :
        create_family_group(1, spouse, children)

CreateSocialGroup ==
    /\ impl = "models"
    /\ create_group(2)

AddMember ==
    /\ impl = "models"
    /\ \E g \in 1..Len(groups), user \in Users :
        LET added == add_member(memberships, groups[g], g, user, "member")
        IN  /\ memberships' = added.rows
            /\ groups' = [groups EXCEPT ![g] = added.group]
            /\ last' = Call("add_member", user, g, "ok")
            /\ UNCHANGED <<relationships, membersFrame>>

RemoveMember ==
    /\ impl = "models"
    /\ \E g \in 1..Len(groups), user \in Users :
        LET removed == remove_member(memberships, groups[g], g, user)
        IN  /\ memberships' = removed.rows
            /\ groups' = [groups EXCEPT ![g] = removed.group]
            /\ last' = Call("remove_member", user, g,
                            IF removed.value THEN "True" ELSE "False")
            /\ UNCHANGED <<relationships, membersFrame>>

AddMemberEndpoint ==
    /\ impl = "models"
    /\ \E uid \in {1, 2}, g \in 1..Len(groups), user_id \in Users :
        add_member_endpoint(uid, g, user_id, "member")

NextMembers ==
    \/ CreateFamilyGroup
    \/ CreateSocialGroup
    \/ AddMember
    \/ RemoveMember
    \/ AddMemberEndpoint

SpecMembers == Init /\ [][NextMembers]_vars

\* C27: the stored member_count of every group equals the number of membership rows
\* of that group
C27_MemberCountMatchesRows ==
    \A g \in 1..Len(groups) : groups[g].member_count = members_count(memberships, g)

(***************************************************************************)
(* UserRelationship.accept_relationship and the approve endpoint of        *)
(* UserRelationshipViewSet                                                 *)
(***************************************************************************)
RELATIONSHIP_STATUS == {"pending", "accepted", "blocked", "declined"}

\* the edges between the two users of the relationship runs
RelationshipEdges == {<<1, 2>>, <<2, 1>>}

\* accept_relationship on the row of edge: the rows it leaves and the value returned
accept_relationship(rows, edge) ==
    IF rows[edge].status = "pending"
    THEN LET accepted == [rows EXCEPT ![edge].status = "accepted", ![edge].is_mutual = TRUE]
             back == <<edge[2], edge[1]>>
         IN  [rows |-> IF back \in DOMAIN accepted THEN accepted
                       ELSE Put(accepted, back,
                                [NewRelationship EXCEPT
                                    !.joint_accounts = accepted[edge].joint_accounts]),
              value |-> TRUE]
    ELSE [rows |-> rows, value |-> FALSE]

\* POST relationships/{id}/approve/ by caller uid: the rows it leaves
approve(rows, uid, edge) ==
    IF edge[2] = uid THEN [rows EXCEPT ![edge].status = "approved"] ELSE rows

AcceptRelationship ==
    /\ impl = "models"
    /\ \E edge \in DOMAIN relationships :
        /\ relationships' = accept_relationship(relationships, edge).rows
        /\ last' = Call("accept_relationship", edge[2], edge,
                        IF accept_relationship(relationships, edge).value
                        THEN "True" ELSE "False")
    /\ UNCHANGED <<accessFrame, accounts>>

\* the caller is one of the two parties of the edge (get_queryset)
Approve ==
    /\ impl = "models"
    /\ \E edge \in DOMAIN relationships, uid \in {1, 2} :
        /\ uid \in {edge[1], edge[2]}
        /\ relationships' = approve(relationships, uid, edge)
        /\ last' = Call("approve", uid, edge, "200")
    /\ UNCHANGED <<accessFrame, accounts>>

SaveRelationshipStatus ==
    /\ impl = "models"
    /\ \E edge \in RelationshipEdges, status \in RELATIONSHIP_STATUS :
        save_relationship(edge[1], edge[2], status, FALSE, FALSE)

NextRelations ==
    \/ SaveRelationshipStatus
    \/ AcceptRelationship
    \/ Approve

SpecRelations == Init /\ [][NextRelations]_vars

\* C28: when the related user of a pending edge u->v accepts it, by
\* accept_relationship or by the approve endpoint, both edges u->v and v->u exist
\* afterwards with status accepted and is_mutual true, whatever the reverse edge was
\* before; and the status of every edge is always one of RELATIONSHIP_STATUS
C28_AcceptedEdgesAreMutual ==
    [][/\ \A edge \in DOMAIN relationships :
            (/\ last'.op \in {"accept_relationship", "approve"}
             /\ last'.tx = edge
             /\ last'.user = edge[2]
             /\ relationships[edge].status = "pending")
            => \A e \in {edge, <<edge[2], edge[1]>>} :
                  /\ e \in DOMAIN relationships'
                  /\ relationships'[e].status = "accepted"
                  /\ relationships'[e].is_mutual
       /\ \A e \in DOMAIN relationships' :
            relationships'[e].status \in RELATIONSHIP_STATUS]_vars

(***************************************************************************)
(* InvestmentViewSet.sell: two requests on one investment, each reading    *)
(* the current quantity before it inserts its row                          *)
(***************************************************************************)
\* the tables no sell request writes
sellFrame == <<baseVars, entities, planVars, groups, relationships, membership, lateVars>>

\* the keyword arguments InvestmentViewSet.sell passes to
\* InvestmentTransaction.objects.create
SellKeywords ==
    {"investment", "transaction_type", "quantity", "price_per_unit", "total_amount",
     "fees", "date", "notes"}

\* sell up to its insert: a missing quantity or price and a quantity above
\* investment.current_quantity are answered 400
sell_check(p, inv, quantity, price_per_unit) ==
    /\ Idle(p)
    /\ inv \in DOMAIN investments
    /\ IF quantity = 0 \/ price_per_unit = 0
       THEN /\ last' = Call("sell", p, inv, "400")
            /\ UNCHANGED procVars
       ELSE IF quantity > current_quantity(itx, inv)
       THEN /\ last' = Call("sell", p, inv, "400")
            /\ UNCHANGED procVars
       ELSE /\ pc' = [pc EXCEPT ![p] = "sell_insert"]
            /\ local' = [local EXCEPT ![p] = [inv |-> inv, quantity |-> quantity,
                                              price_per_unit |-> price_per_unit]]
            /\ last' = Call("sell", p, inv, "checked")
    /\ UNCHANGED <<investments, itx, sellFrame>>

\* the insert of sell: the create call names fields the model does not have, the
\* TypeError it raises is caught and answered 400 before the price is touched;
\* otherwise the row is stored and the price follows
sell_insert(p) ==
    /\ pc[p] = "sell_insert"
    /\ LET inv == local[p].inv
           quantity == local[p].quantity
           price_per_unit == local[p].price_per_unit
       IN  IF ~(SellKeywords \subseteq InvestmentTransactionFields)
           THEN /\ last' = Call("sell", p, inv, "400")
                /\ UNCHANGED <<investments, itx>>
           ELSE /\ itx' = Append(itx, [investment |-> inv, transaction_type |-> "sell",
                                       quantity |-> quantity,
                                       price_per_unit |-> price_per_unit,
                                       amount |-> quantity * price_per_unit,
                                       status |-> "active"])
                /\ investments' = [investments EXCEPT ![inv].current_price = price_per_unit]
                /\ last' = Call("sell", p, inv, "200")
    /\ Finish(p)
    /\ UNCHANGED sellFrame

SellCheck ==
    /\ impl = "optimized"
    /\ \E p \in Procs, quantity \in InvestmentQuantities \cup {0},
          price_per_unit \in InvestmentPrices :
        sell_check(p, 1, quantity, price_per_unit)

SellInsert ==
    /\ impl = "optimized"
    /\ \E p \in Procs : sell_insert(p)

NextSell ==
    \/ CreateInvestment
    \/ CreateInvestmentTransaction
    \/ SellCheck
    \/ SellInsert

SpecSell == InitInvest /\ [][NextSell]_vars

\* C29: the current quantity of an investment, its active buys minus its active
\* sells, is never negative, and a sell request that is answered 400 records no
\* transaction, whatever the interleaving of the checks and the inserts of two sell
\* requests is
C29_QuantityNeverNegative ==
    [][/\ \A inv \in DOMAIN investments' : current_quantity(itx', inv) >= 0
       /\ (last'.op = "sell" /\ last'.result = "400") => itx' = itx]_vars

(***************************************************************************)
(* The limits of the add-ons of a plan customization                       *)
(***************************************************************************)
\* the active rows of one add-on
ActiveInstances(rows, addon) == {i \in InstancesOf(rows, addon) : rows[i].is_active}

\* C30: after every add_addon, customize_plan and remove_addon call every active add-on
\* row has a quantity of at most max_quantity of its add-on and an add-on that is
\* compatible with the plan of the subscription, and a non-stackable add-on has at most
\* one active row, which an add_addon call never changes
C30_AddonLimitsHold ==
    [][last'.op \in {"add_addon", "customize_plan", "remove_addon"}
       => /\ \A i \in DOMAIN addon_instances' :
               addon_instances'[i].is_active
               => /\ addon_instances'[i].quantity
                       <= PlanAddons[addon_instances'[i].addon].max_quantity
                  /\ ~incompatible(addon_instances'[i].addon, subscription')
          /\ \A addon \in DOMAIN PlanAddons :
               ~PlanAddons[addon].is_stackable
               => /\ Cardinality(ActiveInstances(addon_instances', addon)) <= 1
                  /\ (last'.op = "add_addon" /\ last'.tx = addon
                      /\ ActiveInstances(addon_instances, addon) # {})
                     => addon_instances' = addon_instances]_vars

====
